---- MODULE Spec2Model ----
(***************************************************************************)
(* create-yaspp: configuration resolution, target provisioning, content    *)
(* acquisition and artifact generation (src/src/create-yaspp.ts, the       *)
(* revision that starts at line 632).                                      *)
(*                                                                         *)
(* Conventions.  Every JavaScript string is a sequence of TLA+ strings:    *)
(* langs, defaultLocale, styleIndex and a reply typed at a prompt are the  *)
(* sequence of their characters; every other field (a path, a root, a URL, *)
(* a branch) is the sequence of its "/"-separated segments, so that an     *)
(* absolute path starts with the empty segment.  `undefined` and "" are    *)
(* both falsy in every test the program makes on them and both are <<>>.   *)
(* The file system is a function from the existing paths to their nodes.   *)
(***************************************************************************)
EXTENDS Integers, Sequences, FiniteSets, TLC

\* ------------------------------------------------------------------ bounds
MaxPasses == 2
MaxTyped == 1
MaxRuns == 2
MaxCopies == 2
MaxDepth == 3
MaxLangsLen == 6
MaxData == 2
MaxPathLen == 4

\* --------------------------------------------------------------- sequences
SeqToSet(s) == {s[i] : i \in 1..Len(s)}

IsPrefixSeq(a, b) == Len(a) <= Len(b) /\ SubSeq(b, 1, Len(a)) = a

Contains(s, sub) ==
  \E i \in 1..(Len(s) - Len(sub) + 1) : SubSeq(s, i, i + Len(sub) - 1) = sub

EndsWithSeq(s, sub) ==
  Len(sub) <= Len(s) /\ SubSeq(s, Len(s) - Len(sub) + 1, Len(s)) = sub

\* ------------------------------------------------------------- characters
Letters == {"e", "n", "f", "r", "x", "y", "s", "o", "k", "t", "u", "m", "c",
            "d", "a", "Y", "N", "S", "C", "A"}

WhiteSpace == {" "}

ToLower(c) ==
  IF c = "Y" THEN "y" ELSE IF c = "N" THEN "n" ELSE IF c = "S" THEN "s" ELSE c

LowerSeq(s) == [i \in 1..Len(s) |-> ToLower(s[i])]

RECURSIVE TrimStart(_)
TrimStart(s) ==
  IF s # <<>> /\ Head(s) \in WhiteSpace THEN TrimStart(Tail(s)) ELSE s

RECURSIVE TrimEnd(_)
TrimEnd(s) ==
  IF s # <<>> /\ s[Len(s)] \in WhiteSpace
  THEN TrimEnd(SubSeq(s, 1, Len(s) - 1)) ELSE s

\* String.prototype.trim
Trim(s) == TrimEnd(TrimStart(s))

\* --------------------------------------------------------------- parseLangs
IsLangSep(c) == c \in {","} \cup WhiteSpace

\* String.prototype.split(/[,\s]+/)
RECURSIVE SplitLangs(_, _, _)
SplitLangs(s, cur, inSep) ==
  IF s = <<>> THEN <<cur>>
  ELSE IF IsLangSep(Head(s))
       THEN IF inSep THEN SplitLangs(Tail(s), cur, TRUE)
            ELSE <<cur>> \o SplitLangs(Tail(s), <<>>, TRUE)
       ELSE SplitLangs(Tail(s), Append(cur, Head(s)), FALSE)

AllLetters(s) == \A i \in 1..Len(s) : s[i] \in Letters

\* A pattern without the optional second part.
locRE_lettersOnly(s) == AllLetters(s) /\ Len(s) \in 2..5

\* /^[a-zA-Z]{2,5}(?:[\-_][a-zA-Z]{2,5})?$/
locRE(s) ==
  \/ AllLetters(s) /\ Len(s) \in 2..5
  \/ \E i \in 1..Len(s) :
       /\ s[i] \in {"-", "_"}
       /\ AllLetters(SubSeq(s, 1, i - 1)) /\ (i - 1) \in 2..5
       /\ AllLetters(SubSeq(s, i + 1, Len(s))) /\ (Len(s) - i) \in 2..5

parseLangs(langs) == SelectSeq(SplitLangs(langs, <<>>, FALSE), locRE)

\* ------------------------------------------------------------------- paths
\* A path string is the sequence of its "/"-separated segments, an absolute
\* one starting with the empty segment; a path of the file system is the
\* sequence of segments below the root.

\* The characters of a path segment.
NameChars(n) ==
  CASE n = ""      -> <<>>
    [] n = "."     -> <<".">>
    [] n = ".."    -> <<".", ".">>
    [] n = "w"     -> <<"w">>
    [] n = "out"   -> <<"o", "u", "t">>
    [] n = "src"   -> <<"s", "r", "c">>
    [] n = "Src"   -> <<"S", "r", "c">>
    [] n = "site"  -> <<"s", "i", "t", "e">>
    [] n = "docs"  -> <<"d", "o", "c", "s">>
    [] n = "yaspp" -> <<"y", "a", "s", "p", "p">>
    [] n = "a.md"  -> <<"a", ".", "m", "d">>
    [] n = "b.md"  -> <<"b", ".", "m", "d">>
    [] n = ".git"  -> <<".", "g", "i", "t">>
    [] n = "HEAD"  -> <<"H", "E", "A", "D">>
    [] n = "missing" -> <<"m", "i", "s", "s", "i", "n", "g">>
    [] n = "old.txt" -> <<"o", "l", "d", ".", "t", "x", "t">>
    [] n = "content" -> <<"c", "o", "n", "t", "e", "n", "t">>
    [] n = "locales" -> <<"l", "o", "c", "a", "l", "e", "s">>
    [] n = "styles"  -> <<"s", "t", "y", "l", "e", "s">>
    [] n = "assets"  -> <<"a", "s", "s", "e", "t", "s">>
    [] n = ".gitignore"   -> <<".", "g", "i", "t", "i", "g", "n", "o", "r", "e">>
    [] n = "package.json" -> <<"p", "a", "c", "k", "a", "g", "e", ".", "j", "s", "o", "n">>
    [] n = "node_modules" -> <<"n", "o", "d", "e", "_", "m", "o", "d", "u", "l", "e", "s">>
    [] n = "pkg"   -> <<"p", "k", "g">>
    [] n = "data"  -> <<"d", "a", "t", "a">>
    [] n = "templates" -> <<"t", "e", "m", "p", "l", "a", "t", "e", "s">>
    [] n = "sample-site" ->
         <<"s", "a", "m", "p", "l", "e", "-", "s", "i", "t", "e">>
    [] n = "nav.json.tmpl" ->
         <<"n", "a", "v", ".", "j", "s", "o", "n", ".", "t", "m", "p", "l">>
    [] n = "yaspp.nav.json" ->
         <<"y", "a", "s", "p", "p", ".", "n", "a", "v", ".", "j", "s", "o", "n">>
    [] n = "site.git" -> <<"s", "i", "t", "e", ".", "g", "i", "t">>
    [] n = "yaspp.git" -> <<"y", "a", "s", "p", "p", ".", "g", "i", "t">>
    [] n = "yaspp.site.json" ->
         <<"y", "a", "s", "p", "p", ".", "s", "i", "t", "e", ".", "j", "s", "o", "n">>
    [] n = "yaspp.config.json" ->
         <<"y", "a", "s", "p", "p", ".", "c", "o", "n", "f", "i", "g", ".", "j", "s", "o", "n">>

RECURSIVE PathChars(_)
\* Array.prototype.join('/'): the characters of the joined segments.
PathChars(segs) ==
  IF segs = <<>> THEN <<>>
  ELSE IF Len(segs) = 1 THEN NameChars(segs[1])
  ELSE NameChars(Head(segs)) \o <<"/">> \o PathChars(Tail(segs))

\* The string of a path of the file system.
Str(p) == <<"">> \o p

RECURSIVE Normalize(_, _)
\* The segments of a path with each ".." applied to what precedes it.
Normalize(done, todo) ==
  IF todo = <<>> THEN done
  ELSE IF Head(todo) = ".."
       THEN Normalize(SubSeq(done, 1, Len(done) - 1), Tail(todo))
       ELSE Normalize(Append(done, Head(todo)), Tail(todo))

\* path.resolve(base, s): base a path of the file system, s a path string.
Resolve(base, s) ==
  LET segs == SelectSeq(s, LAMBDA n : n # "" /\ n # ".")
  IN Normalize(<<>>, IF s # <<>> /\ s[1] = "" THEN segs ELSE base \o segs)

\* ------------------------------------------------------------- file system
CSY_SAVED_CONFIG == <<"yaspp.site.json">>
CSY_YASPP_CONFIG == <<"yaspp.config.json">>

\* The empty options object and the empty project descriptor.
NoOpt ==
  [repository |-> <<>>, path |-> <<>>, branch |-> <<>>, target |-> <<>>,
   clean |-> FALSE, contentRoot |-> <<>>, contentIndex |-> <<>>,
   localeRoot |-> <<>>, styleRoot |-> <<>>, styleIndex |-> <<>>,
   assetsRoot |-> <<>>, langs |-> <<>>, defaultLocale |-> <<>>]

NoYsp ==
  [contentRoot |-> <<>>, contentIndex |-> <<>>, localeRoot |-> <<>>,
   langs |-> <<>>, defaultLocale |-> <<>>, styleRoot |-> <<>>,
   styleIndex |-> <<>>, assetsRoot |-> <<>>]

\* A node: its kind (FileType), what wrote it, and the JSON object it holds.
FolderNode == [kind |-> "folder", tag |-> "", opt |-> NoOpt, ysp |-> NoYsp]
FileNode(tag) == [kind |-> "file", tag |-> tag, opt |-> NoOpt, ysp |-> NoYsp]

getFileType(f, p) == IF p \in DOMAIN f THEN f[p].kind ELSE ""
isFolder(f, p) == getFileType(f, p) = "folder"
isFile(f, p) == getFileType(f, p) = "file"
isFileOrFolder(f, p) == getFileType(f, p) \in {"folder", "file"}

Children(f, p) == {q \in DOMAIN f : Len(q) = Len(p) + 1 /\ IsPrefixSeq(p, q)}
Descendants(f, p) == {q \in DOMAIN f : Len(q) > Len(p) /\ IsPrefixSeq(p, q)}
Tree(f, p) == {q \in DOMAIN f : IsPrefixSeq(p, q)}

BaseName(p) == p[Len(p)]

Without(f, gone) == [q \in DOMAIN f \ gone |-> f[q]]
With(f, p, node) == [q \in DOMAIN f \cup {p} |-> IF q = p THEN node ELSE f[q]]

\* The glob "*" does not match a name that starts with a dot.
GlobStar(f, p) == {q \in Children(f, p) : Head(NameChars(BaseName(q))) # "."}

\* removeFolder: rmOk = FALSE is rimraf failing, which removes nothing.
removeFolder(f, path, removeRoot, mustExist, rmOk) ==
  IF ~isFolder(f, path) THEN [fs |-> f, result |-> ~mustExist]
  ELSE IF ~rmOk THEN [fs |-> f, result |-> FALSE]
  ELSE IF removeRoot THEN [fs |-> Without(f, Tree(f, path)), result |-> TRUE]
  ELSE [fs |-> Without(f, UNION {Tree(f, q) : q \in GlobStar(f, path)}),
        result |-> TRUE]

\* mkdir: "" or an error message.
mkdir(f, path) ==
  LET t == getFileType(f, path)
      ancestors == {SubSeq(path, 1, i) : i \in 1..Len(path)}
  IN IF t = "folder" THEN [fs |-> f, err |-> ""]
     ELSE IF t # "" THEN [fs |-> f, err |-> "file already exists"]
     ELSE IF \E a \in ancestors : getFileType(f, a) \notin {"", "folder"}
          THEN [fs |-> f, err |-> "mkdir failed"]
          ELSE [fs |-> [q \in DOMAIN f \cup ancestors |->
                          IF q \in DOMAIN f THEN f[q] ELSE FolderNode],
                err |-> ""]

successResult(result) == [error |-> "", result |-> result]

RECURSIVE isEmpty(_, _, _, _)
\* isEmpty: readOk = FALSE is readdir throwing.
isEmpty(f, folder, mustExist, readOk) ==
  IF ~isFolder(f, folder)
  THEN IF mustExist THEN [error |-> "Folder $", result |-> FALSE]
       ELSE successResult(TRUE)
  ELSE IF ~readOk THEN [error |-> "Failed to read folder", result |-> FALSE]
  ELSE LET files == Children(f, folder)
       IN IF files = {} THEN successResult(TRUE)
          ELSE LET d == CHOOSE d \in files : TRUE
               IN IF f[d].kind = "folder"
                  THEN LET emptyRes == isEmpty(f, d, mustExist, readOk)
                       IN IF emptyRes.error # "" THEN emptyRes
                          ELSE IF emptyRes.result = FALSE
                               THEN successResult(FALSE)
                               ELSE successResult(FALSE)
                  ELSE successResult(FALSE)

NoFail == <<>>

RECURSIVE copyFolderContent(_, _, _, _, _)
RECURSIVE copyEntries(_, _, _, _, _, _)
\* The loop over the directory entries: the entries still to copy are `todo`.
\* thrown = TRUE is an exception that reaches the catch clause.
copyEntries(f, srcPath, targetPath, todo, rmOk, failAt) ==
  IF todo = {} THEN [fs |-> f, err |-> "", thrown |-> FALSE]
  ELSE
    LET srcChild == CHOOSE q \in todo : TRUE
        trgChild == targetPath \o <<BaseName(srcChild)>>
        rest == todo \ {srcChild}
    IN CASE f[srcChild].kind = "folder" ->
              LET child == copyFolderContent(f, srcChild, trgChild, rmOk, failAt)
              IN IF child.err # ""
                 THEN [fs |-> child.fs, err |-> child.err, thrown |-> FALSE]
                 ELSE copyEntries(child.fs, srcPath, targetPath, rest, rmOk, failAt)
         [] f[srcChild].kind = "file" ->
              IF failAt = srcChild \/ isFolder(f, trgChild)
              THEN [fs |-> f, err |-> "copy failed", thrown |-> TRUE]
              ELSE copyEntries(With(f, trgChild, f[srcChild]), srcPath,
                               targetPath, rest, rmOk, failAt)
         [] OTHER -> copyEntries(f, srcPath, targetPath, rest, rmOk, failAt)

\* copyFolderContent: "" or an error message.  failAt is the source entry
\* whose readdir or copyFile throws, NoFail for none.
copyFolderContent(f, srcPath, targetPath, rmOk, failAt) ==
  IF ~isFolder(f, srcPath) THEN [fs |-> f, err |-> "Folder not found"]
  ELSE
    LET made == mkdir(f, targetPath)
    IN IF made.err # "" THEN [fs |-> made.fs, err |-> made.err]
       ELSE IF IsPrefixSeq(PathChars(Str(srcPath)), PathChars(Str(targetPath)))
       THEN [fs |-> made.fs, err |-> "Circular copy"]
       ELSE
         LET rmTarget(g) == removeFolder(g, targetPath, FALSE, FALSE, rmOk).fs
             cleared == rmTarget(made.fs)
         IN IF failAt = srcPath \/ ~isFolder(cleared, srcPath)
            THEN [fs |-> rmTarget(cleared), err |-> "copy failed"]
            ELSE
              LET done == copyEntries(cleared, srcPath, targetPath,
                                      Children(cleared, srcPath), rmOk, failAt)
              IN IF done.err # ""
                 THEN [fs |-> rmTarget(done.fs), err |-> done.err]
                 ELSE [fs |-> done.fs, err |-> ""]

\* ------------------------------------------------- readInput and confirm
\* readInput: input is the line the user types, <<>> for a bare Enter.
readInput(defaultValue, autoReply, input) ==
  IF autoReply THEN defaultValue
  ELSE IF input = <<>> THEN defaultValue ELSE Trim(input)

\* A pattern that any reply matches.
confirmRE_nonEmpty(reply) == reply # <<>>

\* /^y|yes|ok|true$/i
confirmRE(reply) ==
  LET r == LowerSeq(reply)
  IN \/ r # <<>> /\ r[1] = "y"
     \/ Contains(r, <<"y", "e", "s">>)
     \/ Contains(r, <<"o", "k">>)
     \/ EndsWithSeq(r, <<"t", "r", "u", "e">>)

\* confirm(msg, defaultValue): the default reply is "Y" or "N".
confirm(defaultValue, input) ==
  LET def == IF defaultValue THEN <<"Y">> ELSE <<"N">>
  IN confirmRE(readInput(def, FALSE, input))

\* --------------------------------------------------------- getConfiguration
Fields == {"repository", "path", "contentRoot", "contentIndex", "localeRoot",
           "styleRoot", "styleIndex", "assetsRoot", "langs", "defaultLocale",
           "branch"}

ScssSuffix == <<".", "s", "c", "s", "s">>

ErrBoth == "Can't specify both path and repository"
ErrPath == "Content path not found"
ErrContentRoot == "Content root cannot be empty"
ErrContentIndex == "Content index cannot be empty"
ErrLocaleRoot == "Locale root cannot be empty"
ErrStyleIndex == "style index (custom scss file) cannot be empty"
ErrLangs == "No legal language specified"
ErrLocale == "Invalid default locale"
ErrBranch == "You specified branch without a site repository"

\* The content path taken as found whatever it names.
pathNotFound_unchecked(f, projectRoot, path) == FALSE

\* `if (options.path) { ... !await utils.isFolder(fullPath) ...`
pathNotFound(f, projectRoot, path) ==
  path # <<>> /\ ~isFolder(f, Resolve(projectRoot, path))

\* The default locale checked for emptiness only.
invalidLocale_emptyOnly(defaultLocale, langs) == defaultLocale = <<>>

\* `!options.defaultLocale || !langs.includes(options.defaultLocale)`
invalidLocale(defaultLocale, langs) ==
  defaultLocale = <<>> \/ defaultLocale \notin SeqToSet(langs)

RECURSIVE pushAll_failFast(_)
\* Validation that stops at the first rule that is violated.
pushAll_failFast(es) ==
  IF es = <<>> THEN <<>>
  ELSE IF Head(es) # <<>> THEN Head(es)
  ELSE pushAll_failFast(Tail(es))

RECURSIVE pushAll(_)
\* The array errors after the calls of errors.push: es holds, for each rule
\* in the order of the code, what its test pushed.
pushAll(es) == IF es = <<>> THEN <<>> ELSE Head(es) \o pushAll(Tail(es))

\* One pass of getConfiguration, up to the confirmation: the options it
\* collects, the errors it pushes (in order) and the fields it prompted for.
\* args are the values offered as defaults, input the reply to each prompt.
getConfiguration(args, autoReply, input, f, projectRoot) ==
  LET target == Str(Resolve(projectRoot, args.target))
      clean == (args.clean = TRUE)
      repository ==
        IF args.path = <<>>
        THEN readInput(args.repository, autoReply, input.repository)
        ELSE <<>>
      path ==
        IF repository = <<>>
        THEN readInput(args.path, autoReply, input.path)
        ELSE <<>>
      e1 == IF repository # <<>> /\ path # <<>> THEN <<ErrBoth>> ELSE <<>>
      e2 == IF pathNotFound(f, projectRoot, path) THEN <<ErrPath>> ELSE <<>>
      contentRoot == readInput(args.contentRoot, autoReply, input.contentRoot)
      e3 == IF contentRoot = <<>> THEN <<ErrContentRoot>> ELSE <<>>
      contentIndex == readInput(args.contentIndex, autoReply, input.contentIndex)
      e4 == IF contentIndex = <<>> THEN <<ErrContentIndex>> ELSE <<>>
      localeRoot == readInput(args.localeRoot, autoReply, input.localeRoot)
      e5 == IF localeRoot = <<>> THEN <<ErrLocaleRoot>> ELSE <<>>
      styleRoot == readInput(args.styleRoot, autoReply, input.styleRoot)
      ind == readInput(args.styleIndex, autoReply, input.styleIndex)
      styleIndex ==
        IF styleRoot = <<>> THEN <<>>
        ELSE IF ind # <<>> /\ "." \notin SeqToSet(ind) THEN ind \o ScssSuffix
        ELSE ind
      e6 == IF styleRoot # <<>> /\ styleIndex = <<>>
            THEN <<ErrStyleIndex>> ELSE <<>>
      assetsRoot == readInput(args.assetsRoot, autoReply, input.assetsRoot)
      langs == readInput(IF args.langs # <<>> THEN args.langs ELSE <<"e", "n">>,
                         autoReply, input.langs)
      parsed == parseLangs(langs)
      e7 == IF Len(parsed) = 0 THEN <<ErrLangs>> ELSE <<>>
      defaultLocale ==
        readInput(IF Len(parsed) > 0 THEN parsed[1] ELSE <<>>,
                  autoReply, input.defaultLocale)
      e8 == IF invalidLocale(defaultLocale, parsed) THEN <<ErrLocale>> ELSE <<>>
      branch ==
        IF repository # <<>>
        THEN readInput(args.branch, autoReply, input.branch)
        ELSE <<>>
      e9 == IF repository = <<>> /\ args.branch # <<>>
            THEN <<ErrBranch>> ELSE <<>>
  IN [options |->
        [repository |-> repository, path |-> path, branch |-> branch,
         target |-> target, clean |-> clean, contentRoot |-> contentRoot,
         contentIndex |-> contentIndex, localeRoot |-> localeRoot,
         styleRoot |-> styleRoot, styleIndex |-> styleIndex,
         assetsRoot |-> assetsRoot, langs |-> langs,
         defaultLocale |-> defaultLocale],
      errors |-> pushAll(<<e1, e2, e3, e4, e5, e6, e7, e8, e9>>),
      prompted |->
        IF autoReply THEN {}
        ELSE {"contentRoot", "contentIndex", "localeRoot", "styleRoot",
              "assetsRoot", "langs", "defaultLocale"}
             \cup (IF args.path = <<>> THEN {"repository"} ELSE {})
             \cup (IF repository = <<>> THEN {"path"} ELSE {})
             \cup (IF styleRoot # <<>> THEN {"styleIndex"} ELSE {})
             \cup (IF repository # <<>> THEN {"branch"} ELSE {})]

\* ------------------------------------------------------------------ inputs
SiteRepo == <<"git@host:me", "site.git">>
LangEn == <<"e", "n">>
LangFr == <<"f", "r">>

\* What the user may type at the prompt of each field (besides a bare Enter):
\* blanks only, which clears the field, or a value with a blank before it.
Typed(field) ==
  {<<" ">>} \cup
  CASE field = "repository"   -> {<<" ", "git@host:me", "site.git">>}
    [] field = "path"         -> {<<" ", "src">>, <<" ", "missing", " ">>}
    [] field = "contentRoot"  -> {<<" ", "content">>}
    [] field = "contentIndex" -> {<<" ", "docs">>}
    [] field = "localeRoot"   -> {<<" ", "locales">>}
    [] field = "styleRoot"    -> {<<" ", "styles">>}
    [] field = "styleIndex"   -> {<<" ", "m">>, <<"m", ".", "c">>}
    [] field = "assetsRoot"   -> {<<" ", "assets">>}
    [] field = "langs"        -> {<<"e", "n", ",", " ", "f", "r">>, <<"e", ",", "1">>}
    [] field = "defaultLocale" -> {<<"f", "r", " ">>, <<"x", "x">>}
    [] field = "branch"       -> {<<" ", "dev">>}

AllEnter == [field \in Fields |-> <<>>]

RECURSIVE InputsTyping(_)
\* The replies to one pass in which at most k prompts are answered by typing.
InputsTyping(k) ==
  IF k = 0 THEN {AllEnter}
  ELSE LET less == InputsTyping(k - 1)
       IN less \cup UNION {{[r EXCEPT ![field] = v] : r \in less, v \in Typed(field)} :
                           field \in Fields}

Inputs == [k \in 0..MaxTyped |-> InputsTyping(k)]

TypedCount(input) == Cardinality({field \in Fields : input[field] # <<>>})

ConfirmReplies == {<<>>, <<"y">>, <<"N", "o">>, <<"o", "k", " ">>}

\* --------------------------------------------------------------- diffPaths
Min(a, b) == IF a < b THEN a ELSE b

RECURSIVE diffLoop(_, _, _, _, _, _)
\* The for loop of diffPaths; ind counts from 1.  fold: the revision that
\* compares the segments with toLowerCase().
diffLoop(fromParts, toParts, ind, retParts, rest, fold) ==
  IF ind > Len(fromParts) THEN [retParts |-> retParts, rest |-> rest]
  ELSE IF retParts # <<>> \/ ind > Len(toParts)
       THEN diffLoop(fromParts, toParts, ind + 1, Append(retParts, ".."), rest,
                     fold)
  ELSE IF IF fold
          THEN LowerSeq(NameChars(fromParts[ind])) # LowerSeq(NameChars(toParts[ind]))
          ELSE fromParts[ind] # toParts[ind]
       THEN diffLoop(fromParts, toParts, ind + 1, Append(retParts, ".."),
                     SubSeq(toParts, Min(ind, Len(toParts)), Len(toParts)), fold)
  ELSE diffLoop(fromParts, toParts, ind + 1, retParts, rest, fold)

\* diffPaths after its loop
diffResult(fromPath, toPath, loop) ==
  LET relPath ==
        IF PathChars(loop.rest) # <<>> THEN loop.retParts \o loop.rest
        ELSE IF Len(toPath) > Len(fromPath)
             THEN loop.retParts \o SubSeq(toPath, Len(fromPath) + 1, Len(toPath))
             ELSE loop.retParts
  IN IF Len(PathChars(relPath)) < Len(PathChars(toPath)) THEN relPath ELSE toPath

\* diffPaths(fromPath, toPath): both are path strings.
diffPaths(fromPath, toPath) ==
  diffResult(fromPath, toPath, diffLoop(fromPath, toPath, 1, <<>>, <<>>, FALSE))

\* diffPaths of the revisions that fold the case
diffPathsFolded(fromPath, toPath) ==
  diffResult(fromPath, toPath, diffLoop(fromPath, toPath, 1, <<>>, <<>>, TRUE))

\* adaptOptionsToPath(options, path)
adaptOptionsToPath(options, path) ==
  IF path = <<>> THEN options
  ELSE LET root == diffPaths(options.target, path)
           addRoot(p) == IF p # <<>> THEN root \o p ELSE p
       IN IF PathChars(root) = <<>> THEN options
          ELSE [options EXCEPT !.contentRoot = addRoot(options.contentRoot),
                               !.styleRoot = addRoot(options.styleRoot),
                               !.assetsRoot = addRoot(options.assetsRoot),
                               !.localeRoot = addRoot(options.localeRoot)]

\* --------------------------------------------------------------- loadTools
Tools == {"git", "yarn", "npm", "npx"}

\* What a `--version` probe can give: a version line with status 0, status 0
\* with no version in the output, or a failure to run.
ProbeOk == [status |-> 0, output |-> <<"version 1.2.3">>]
ProbeMute == [status |-> 0, output |-> <<>>]
ProbeFail == [status |-> 127, output |-> <<>>]

\* str.match(/\d+\.\d+(?:\.\d+)?/) on one output line
VersionIn(line) == IF line = "version 1.2.3" THEN "1.2.3" ELSE ""

RECURSIVE parseVersion(_)
parseVersion(data) ==
  IF data = <<>> THEN ""
  ELSE IF VersionIn(Head(data)) # "" THEN VersionIn(Head(data))
  ELSE parseVersion(Tail(data))

\* loadTools taking every tool whose probe exited with status 0 as present.
loadTools_statusOnly(probe) ==
  [tool \in Tools |->
     IF probe[tool].status # 0 THEN ""
     ELSE IF parseVersion(probe[tool].output) = "" THEN "unknown"
     ELSE parseVersion(probe[tool].output)]

\* loadTools: probe[tool] is the outcome of running `tool --version`.
loadTools(probe) ==
  [tool \in Tools |->
     IF probe[tool].status = 0 THEN parseVersion(probe[tool].output) ELSE ""]

\* create-yaspp is started with npx, so the probes of npm and npx succeed.
Probes ==
  {p \in [Tools -> {ProbeOk, ProbeMute, ProbeFail}] :
     p["npm"] = ProbeOk /\ p["npx"] = ProbeOk}

\* ---------------------------------------------------------- cloneRepository
YASPP_REPO_URL == <<"git@github.com:imdfl", "yaspp.git">>

DotGit == <<".", "g", "i", "t">>

\* url.replace(/^.+\/([^\.]+)\.git\s*$/, "$1")
repoNameOf(url) ==
  LET last == NameChars(url[Len(url)])
      stem == SubSeq(last, 1, Len(last) - Len(DotGit))
  IN IF Len(url) >= 2 /\ EndsWithSeq(last, DotGit) /\ stem # <<>>
        /\ "." \notin SeqToSet(stem)
     THEN CHOOSE n \in {"yaspp", "site"} : NameChars(n) = stem
     ELSE url[Len(url)]

\* What `git clone` leaves at sitePath: the work tree of the branch.
ClonedTree(f, sitePath, url, branch) ==
  LET blob == [kind |-> "file", tag |-> "git",
               opt |-> [NoOpt EXCEPT !.repository = url, !.branch = branch],
               ysp |-> NoYsp]
      new == {sitePath, sitePath \o <<".git">>, sitePath \o <<".git", "HEAD">>,
              sitePath \o <<"a.md">>}
  IN [q \in DOMAIN f \cup new |->
        IF q \in {sitePath, sitePath \o <<".git">>} THEN FolderNode
        ELSE IF q \in new THEN blob
        ELSE f[q]]

\* cloneRepository: parentFolder is a path of the file system, folderName ""
\* when absent; gitOk = FALSE is git ending with a non-zero status.
cloneRepository(f, url, dry, branch, folderName, parentFolder, rmOk, gitOk) ==
  LET sitePath ==
        parentFolder \o <<IF folderName # "" THEN folderName ELSE repoNameOf(url)>>
  IN IF dry
     THEN [fs |-> f, error |-> "", result |-> Str(sitePath), spawned |-> {}]
     ELSE
       LET removed == removeFolder(f, sitePath, TRUE, FALSE, rmOk).fs
           status0 ==
             /\ gitOk
             /\ isFolder(removed, parentFolder)
             /\ \/ sitePath \notin DOMAIN removed
                \/ isFolder(removed, sitePath) /\ Children(removed, sitePath) = {}
       IN IF status0
          THEN [fs |-> ClonedTree(removed, sitePath, url, branch), error |-> "",
                result |-> Str(sitePath), spawned |-> {"git clone"}]
          ELSE [fs |-> removed, error |-> "error", result |-> <<>>,
                spawned |-> {"git clone"}]

\* cloneYaspp: "" or an error message
cloneYaspp(f, target, dry, rmOk, gitOk) ==
  LET yRes == cloneRepository(f, YASPP_REPO_URL, dry, <<"master">>, "", target,
                              rmOk, gitOk)
  IN [fs |-> yRes.fs, spawned |-> yRes.spawned,
      err |-> IF yRes.error # "" THEN "Clone error" ELSE ""]

\* ------------------------------------------------------------- copyContent
TargetPath(options) == Resolve(<<>>, options.target)

\* copyContent copying in a dry run too.
copyContent_ignoreDry(f, path, target, dry, projectRoot, rmOk, failAt) ==
  LET srcPath == Resolve(projectRoot, path)
      sitePath == Resolve(Resolve(<<>>, target), <<"site">>)
      copy == copyFolderContent(f, srcPath, sitePath, rmOk, failAt)
  IN IF copy.err # ""
     THEN [fs |-> copy.fs, error |-> copy.err, result |-> <<>>]
     ELSE [fs |-> copy.fs, error |-> "", result |-> Str(sitePath)]

copyContent(f, path, target, dry, projectRoot, rmOk, failAt) ==
  LET srcPath == Resolve(projectRoot, path)
      sitePath == Resolve(Resolve(<<>>, target), <<"site">>)
  IN IF dry THEN [fs |-> f, error |-> "", result |-> <<>>]
     ELSE LET copy == copyFolderContent(f, srcPath, sitePath, rmOk, failAt)
          IN IF copy.err # ""
             THEN [fs |-> copy.fs, error |-> copy.err, result |-> <<>>]
             ELSE [fs |-> copy.fs, error |-> "", result |-> Str(sitePath)]

\* copySiteContent: the options adapted to the place of the content, or an
\* error.
copySiteContent(f, options, dry, projectRoot, rmOk, gitOk, failAt) ==
  IF options.path # <<>>
  THEN LET copyRes == copyContent(f, options.path, options.target, dry,
                                  projectRoot, rmOk, failAt)
       IN IF copyRes.error # ""
          THEN [fs |-> copyRes.fs, error |-> copyRes.error, result |-> options,
                spawned |-> {}]
          ELSE [fs |-> copyRes.fs, error |-> "", spawned |-> {},
                result |-> adaptOptionsToPath(options, copyRes.result)]
  ELSE IF options.repository # <<>>
  THEN LET cloneRes == cloneRepository(f, options.repository, dry, options.branch,
                                       "site", TargetPath(options), rmOk, gitOk)
       IN IF cloneRes.error # ""
          THEN [fs |-> cloneRes.fs, error |-> cloneRes.error, result |-> options,
                spawned |-> cloneRes.spawned]
          ELSE [fs |-> cloneRes.fs, error |-> "", spawned |-> cloneRes.spawned,
                result |-> adaptOptionsToPath(options, cloneRes.result)]
  ELSE [fs |-> f, error |-> "", spawned |-> {},
        result |-> adaptOptionsToPath(options, <<>>)]

\* ------------------------------------------------------------ generateYaspp
\* fs.writeFile: wOk = FALSE is the write failing for a reason outside the
\* program; it also fails when the parent is not a folder or a folder is in
\* the way.
CanWrite(f, p, wOk) ==
  /\ wOk
  /\ isFolder(f, SubSeq(p, 1, Len(p) - 1))
  /\ ~isFolder(f, p)

\* The object y that generateYaspp serializes.
YasppConfig(options) ==
  [contentRoot |-> options.contentRoot,
   contentIndex |-> options.contentIndex,
   localeRoot |-> options.localeRoot,
   langs |-> parseLangs(options.langs),
   defaultLocale |-> options.defaultLocale,
   styleRoot |-> options.styleRoot,
   styleIndex |-> IF options.styleRoot # <<>> THEN options.styleIndex ELSE <<>>,
   assetsRoot |-> options.assetsRoot]

generateYaspp(f, options, dry, wOk) ==
  LET yPath == Resolve(TargetPath(options), CSY_YASPP_CONFIG)
      node == [kind |-> "file", tag |-> "yaspp.config.json", opt |-> NoOpt,
               ysp |-> YasppConfig(options)]
  IN IF dry THEN [fs |-> f, error |-> "", written |-> {}]
     ELSE IF CanWrite(f, yPath, wOk)
          THEN [fs |-> With(f, yPath, node), error |-> "", written |-> {yPath}]
          ELSE [fs |-> f, error |-> "Error generating yaspp.config.json",
                written |-> {}]

\* ---------------------------------------------------------- finalizeProject
\* finalizeProject: installOk and initOk = FALSE are the install command and
\* the init script ending with a non-zero status.  A successful install
\* leaves node_modules in its working directory; the init script belongs to
\* the cloned library and its own effects are not part of this program.
finalizeProject(f, target, tools, dryrun, projectRoot, installOk, initOk) ==
  IF tools["yarn"] = "" /\ tools["npm"] = ""
  THEN [fs |-> f, err |-> "neither yarn nor npm available", spawned |-> {}]
  ELSE
    LET exe == IF tools["yarn"] # "" THEN "yarn install" ELSE "npm run install"
        cwdInstall == Resolve(target, <<"yaspp">>)
        yarnStatus0 == dryrun \/ (installOk /\ isFolder(f, cwdInstall))
        f1 == IF ~dryrun /\ yarnStatus0
              THEN With(f, cwdInstall \o <<"node_modules">>, FolderNode)
              ELSE f
        initStatus0 == dryrun \/ (initOk /\ isFolder(f1, Resolve(projectRoot, <<"yaspp">>)))
    IN IF ~yarnStatus0
       THEN [fs |-> f1, err |-> "Failed to run yarn/npm", spawned |-> {exe}]
       ELSE IF ~initStatus0
       THEN [fs |-> f1, err |-> "Failedto run init-yaspp",
             spawned |-> {exe, "npx ts-node init-yaspp"}]
       ELSE [fs |-> f1, err |-> "",
             spawned |-> IF dryrun THEN {} ELSE {exe, "npx ts-node init-yaspp"}]

\* ------------------------------------------------------------ generateFiles
copies == <<[tmpl |-> "gitignore.tmpl", path |-> <<".gitignore">>],
            [tmpl |-> "package.json.tmpl", path |-> <<"package.json">>]>>

\* What can go wrong in generateFiles: save = FALSE is the write of the
\* side-car failing, write the copies whose writeFile succeeds, tmpl the
\* copies whose template can be read.
FileFaults ==
  [save : BOOLEAN, write : SUBSET (1..Len(copies)), tmpl : SUBSET (1..Len(copies))]

\* Every write succeeding or every write failing, the templates in place.
WriteFaults(wOk) ==
  [save |-> wOk, write |-> IF wOk THEN 1..Len(copies) ELSE {},
   tmpl |-> 1..Len(copies)]

RECURSIVE generateCopies_overwrite(_, _, _, _, _)
\* The loop without the test for an existing file or folder.
generateCopies_overwrite(f, i, dry, projectRoot, ok) ==
  IF i > Len(copies) THEN [fs |-> f, written |-> {}]
  ELSE
    LET filePath == Resolve(projectRoot, copies[i].path)
        doWrite == i \in ok.tmpl /\ ~dry /\ CanWrite(f, filePath, i \in ok.write)
        f1 == IF doWrite THEN With(f, filePath, FileNode(copies[i].tmpl)) ELSE f
        more == generateCopies_overwrite(f1, i + 1, dry, projectRoot, ok)
    IN [fs |-> more.fs,
        written |-> more.written \cup (IF doWrite THEN {filePath} ELSE {})]

RECURSIVE generateCopies(_, _, _, _, _)
\* The loop of generateFiles over copies[i..]
generateCopies(f, i, dry, projectRoot, ok) ==
  IF i > Len(copies) THEN [fs |-> f, written |-> {}]
  ELSE
    LET filePath == Resolve(projectRoot, copies[i].path)
        doWrite == /\ ~isFileOrFolder(f, filePath)
                   /\ i \in ok.tmpl
                   /\ ~dry
                   /\ CanWrite(f, filePath, i \in ok.write)
        f1 == IF doWrite THEN With(f, filePath, FileNode(copies[i].tmpl)) ELSE f
        more == generateCopies(f1, i + 1, dry, projectRoot, ok)
    IN [fs |-> more.fs,
        written |-> more.written \cup (IF doWrite THEN {filePath} ELSE {})]

\* generateFiles: always ""
generateFiles(f, options, dry, projectRoot, ok) ==
  LET savedPath == Resolve(TargetPath(options), CSY_SAVED_CONFIG)
      saved == [kind |-> "file", tag |-> "yaspp.site.json", opt |-> options,
                ysp |-> NoYsp]
      doSave == ~dry /\ CanWrite(f, savedPath, ok.save)
      f1 == IF doSave THEN With(f, savedPath, saved) ELSE f
      done == generateCopies(f1, 1, dry, projectRoot, ok)
  IN [fs |-> done.fs, err |-> "",
      written |-> done.written \cup (IF doSave THEN {savedPath} ELSE {})]

\* ------------------------------------------------------------- verifyTarget
\* verifyTarget: "" or an error message.  argv are the command-line flags,
\* input the reply to the delete confirmation; asked tells whether the
\* confirmation was shown.
verifyTarget(f, argv, options, input, readOk, rmOk) ==
  LET target == TargetPath(options)
      made == IF ~argv.dryrun THEN mkdir(f, target) ELSE [fs |-> f, err |-> ""]
      emptyRes == isEmpty(made.fs, target, FALSE, readOk)
      notEmpty == "Target folder not empty"
      rm == removeFolder(made.fs, target, FALSE, FALSE, rmOk)
      keep(e, asked) == [fs |-> made.fs, err |-> e, asked |-> asked]
  IN IF made.err # "" THEN keep("Failed to find or create target folder", FALSE)
     ELSE IF emptyRes.error # "" THEN keep(emptyRes.error, FALSE)
     ELSE IF emptyRes.result = FALSE
     THEN IF argv.dryrun THEN keep(IF argv.clean THEN "" ELSE notEmpty, FALSE)
          ELSE IF argv.clean
               THEN [fs |-> rm.fs, err |-> IF rm.result THEN "" ELSE notEmpty,
                     asked |-> FALSE]
          ELSE IF argv.autoReply THEN keep(notEmpty, FALSE)
          ELSE IF ~confirm(FALSE, input) THEN keep(notEmpty, TRUE)
          ELSE [fs |-> rm.fs, err |-> IF rm.result THEN "" ELSE notEmpty,
                asked |-> TRUE]
     ELSE keep("", FALSE)

\* exit(err): the exit code of the process
exit(e) == IF e # "" THEN 1 ELSE 0

\* ----------------------------------------------------------------- readJSON
\* readJSON(path): the parsed object, or null (ok = FALSE) when the file is
\* missing, empty or not JSON.  An object without any of the option keys
\* reads as the empty options.
readJSON(f, path) ==
  IF ~isFile(f, path) THEN [ok |-> FALSE, value |-> NoOpt]
  ELSE IF f[path].tag = "yaspp.site.json" THEN [ok |-> TRUE, value |-> f[path].opt]
  ELSE IF f[path].tag \in {"yaspp.config.json", "package.json.tmpl"}
       THEN [ok |-> TRUE, value |-> NoOpt]
  ELSE [ok |-> FALSE, value |-> NoOpt]

\* ------------------------------------------------------------ the processes
PROJECT_ROOT == <<"w">>

VARIABLES
  pc,          \* where main is: the stage to run next, "idle" or "exit"
  argv,        \* the parsed command line
  cfgArgs,     \* the args of the current call of getConfiguration
  cfgAuto,     \* its autoReply
  passArgs,    \* the args of the pass that ran last
  options,     \* the options that getConfiguration collected last
  errors,      \* the errors of its last pass
  passes,      \* passes of getConfiguration run so far
  typed,       \* prompts answered by typing so far
  tools,       \* the result of loadTools
  probes,      \* the outcomes of its version probes
  fs,          \* the file system
  fs0,         \* the file system when the process started
  fsV,         \* the file system when verifyTarget was called
  fsF,         \* the file system when finalizeProject was called
  spawned,     \* the external commands the process has run
  written,     \* the paths the process has written a file to
  stages,      \* the stages of main started so far
  siteOptions, \* siteRes.result
  err,         \* the value main returns
  stageErr,    \* the value the last stage returned to main
  fErr,        \* the result of finalizeProject
  asked,       \* verifyTarget asked for the delete confirmation
  remove,      \* the answer to it
  runs,        \* processes started so far
  prev,        \* the options and target of the earlier successful run
  call         \* a call of one function on its own: its name, arguments, result

\* The variables of the program, and all the variables.
program == <<pc, argv, cfgArgs, cfgAuto, passArgs, options, errors, passes,
             typed, tools, probes, fs, fs0, fsV, fsF, spawned, written, stages,
             siteOptions, err, stageErr, fErr, asked, remove, runs, prev>>

vars == <<program, call>>

NoTools == [tool \in Tools |-> ""]

\* No tool has been probed.
NoProbes == <<>>

\* ---- the file systems a first run may find
ContentNode == FileNode("content")

FSOf(folders, files) ==
  [q \in folders \cup files |-> IF q \in folders THEN FolderNode ELSE ContentNode]

\* A configuration file that holds the object cfg.
ConfigNode(cfg) ==
  [kind |-> "file", tag |-> "yaspp.site.json", opt |-> cfg, ysp |-> NoYsp]

SrcFolders == {<<"w">>, <<"w", "src">>, <<"w", "src", "docs">>}
SrcFiles == {<<"w", "src", "a.md">>, <<"w", "src", "docs", "b.md">>}

BaseRest ==
  [NoOpt EXCEPT !.contentRoot = <<"content">>, !.contentIndex = <<"docs">>,
                !.localeRoot = <<"locales">>, !.langs = LangEn]

\* Configuration files a user may have written: one that names a repository
\* and a content path, one with a style root and no style index.
CfgBoth ==
  [BaseRest EXCEPT !.repository = SiteRepo, !.path = <<"src">>,
                   !.target = <<"out">>]
CfgStyle ==
  [BaseRest EXCEPT !.langs = <<"e", "n", ",", " ", "f", "r">>,
                   !.defaultLocale = LangFr, !.styleRoot = <<"styles">>,
                   !.target = <<"out">>]

\* The working directory empty; holding the content folder src; in addition
\* the folder out: empty, with a file, with a dot folder, or out being a
\* file; or in addition a configuration file.
InitialFS ==
  {FSOf({<<"w">>}, {}),
   FSOf(SrcFolders, SrcFiles),
   FSOf(SrcFolders \cup {<<"w", "out">>}, SrcFiles),
   FSOf(SrcFolders \cup {<<"w", "out">>}, SrcFiles \cup {<<"w", "out", "old.txt">>}),
   FSOf(SrcFolders \cup {<<"w", "out">>, <<"w", "out", ".git">>}, SrcFiles),
   FSOf(SrcFolders, SrcFiles \cup {<<"w", "out">>}),
   With(FSOf(SrcFolders, SrcFiles), <<"w", "yaspp.site.json">>, ConfigNode(CfgBoth)),
   With(FSOf(SrcFolders, SrcFiles), <<"w", "yaspp.site.json">>, ConfigNode(CfgStyle))}

\* ---- the command lines
\* The configuration values given on the command line: nothing; a valid
\* configuration without a source, with a repository, with a content path
\* (existing or not), with both.
Rests ==
  {NoOpt,
   BaseRest,
   [BaseRest EXCEPT !.repository = SiteRepo, !.branch = <<"dev">>],
   [BaseRest EXCEPT !.path = <<"src">>, !.styleRoot = <<"styles">>,
                    !.styleIndex = <<"m">>, !.assetsRoot = <<"assets">>],
   [BaseRest EXCEPT !.path = <<"missing">>],
   [BaseRest EXCEPT !.repository = SiteRepo, !.path = <<"src">>]}

TargetArgs == {<<>>, <<"out">>}

Argv(dryrun, autoReply, refresh, config, content, clean, target, rest) ==
  [dryrun |-> dryrun, autoReply |-> autoReply, refresh |-> refresh,
   config |-> config, content |-> content,
   rest |-> [rest EXCEPT !.clean = clean, !.target = target]]

FileMode(a) == a.config # <<>> \/ a.autoReply \/ a.refresh

\* A run without --dryrun, --clean and --no-content.
PlainRun(a) == ~a.dryrun /\ ~a.rest.clean /\ a.content

\* The command lines of a first run.  With --config, --auto or --refresh main
\* takes the configuration values from the file and not from the command
\* line, so none are given there; --no-content is tried on plain runs.
Argvs ==
  {a \in {Argv(d, au, re, co, ct, cl, t, r) :
            d \in BOOLEAN, au \in BOOLEAN, re \in BOOLEAN,
            co \in {<<>>, CSY_SAVED_CONFIG}, ct \in BOOLEAN, cl \in BOOLEAN,
            t \in TargetArgs, r \in Rests} :
     /\ FileMode(a) => a.rest = [NoOpt EXCEPT !.clean = a.rest.clean]
     /\ ~a.content => ~a.dryrun /\ ~a.rest.clean /\ ~FileMode(a)}

\* The command lines of a later --auto or --refresh run for the target of
\* the earlier run: --target as before, and the side-car either looked up
\* by default or named with --config.
AgainArgvs(target) ==
  {a \in {Argv(d, au, re, co, TRUE, cl, target, NoOpt) :
            d \in BOOLEAN, au \in BOOLEAN, re \in BOOLEAN, cl \in BOOLEAN,
            co \in {<<>>, target \o CSY_SAVED_CONFIG}} :
     a.autoReply \/ a.refresh}

\* No function is called on its own while the program runs.
NoCall == [op |-> "none"]

NoPrev == [target |-> <<>>, options |-> NoOpt, saved |-> FALSE]

InitProgram ==
  /\ pc = "idle"
  /\ fs \in InitialFS
  /\ fs0 = fs
  /\ fsV = fs
  /\ fsF = fs
  /\ stageErr = ""
  /\ argv = Argv(FALSE, FALSE, FALSE, <<>>, TRUE, FALSE, <<>>, NoOpt)
  /\ cfgArgs = NoOpt
  /\ cfgAuto = FALSE
  /\ passArgs = NoOpt
  /\ options = NoOpt
  /\ errors = <<>>
  /\ passes = 0
  /\ typed = 0
  /\ tools = NoTools
  /\ probes = NoProbes
  /\ spawned = {}
  /\ written = {}
  /\ stages = <<>>
  /\ siteOptions = NoOpt
  /\ err = ""
  /\ fErr = ""
  /\ asked = FALSE
  /\ remove = FALSE
  /\ runs = 0
  /\ prev = NoPrev

Init == InitProgram /\ call = NoCall

\* The state of a process that has just started with the command line a.
Started(a) ==
  /\ pc' = "loadTools"
  /\ argv' = a
  /\ fs' = fs
  /\ fs0' = fs
  /\ fsV' = fs
  /\ fsF' = fs
  /\ stageErr' = ""
  /\ cfgArgs' = NoOpt
  /\ cfgAuto' = FALSE
  /\ passArgs' = NoOpt
  /\ options' = NoOpt
  /\ errors' = <<>>
  /\ passes' = 0
  /\ typed' = 0
  /\ tools' = NoTools
  /\ probes' = NoProbes
  /\ spawned' = {}
  /\ written' = {}
  /\ stages' = <<>>
  /\ siteOptions' = NoOpt
  /\ err' = ""
  /\ fErr' = ""
  /\ asked' = FALSE
  /\ remove' = FALSE
  /\ runs' = runs + 1
  /\ call' = call

\* The user runs create-yaspp; a file system with the folder or file out is
\* tried with --target out.
Invoke ==
  /\ pc = "idle"
  /\ \E a \in Argvs :
       /\ <<"w", "out">> \in DOMAIN fs => a.rest.target = <<"out">>
       /\ Started(a)
  /\ prev' = prev

\* After a run that set a project up, the user runs create-yaspp again with
\* --auto or --refresh, from the same directory and for the same target.
InvokeAgain ==
  /\ pc = "exit"
  /\ err = ""
  /\ ~argv.dryrun
  /\ "generateFiles" \in SeqToSet(stages)
  /\ runs < MaxRuns
  /\ \E a \in AgainArgvs(argv.rest.target) : Started(a)
  /\ prev' = [target |-> TargetPath(options), options |-> options,
               saved |-> Resolve(TargetPath(options), CSY_SAVED_CONFIG) \in written]

StageOrder ==
  <<"loadTools", "getConfiguration", "verifyTarget", "copySiteContent",
    "cloneYaspp", "generateYaspp", "finalizeProject", "generateFiles">>

\* The stage main calls after `stage` has succeeded.
NextStage(stage) ==
  CASE stage = "loadTools" -> "loadConfig"
    [] stage = "loadConfig" -> "getConfiguration"
    [] stage = "getConfiguration" -> "verifyTarget"
    [] stage = "verifyTarget" -> "copySiteContent"
    [] stage = "copySiteContent" -> "cloneYaspp"
    [] stage = "cloneYaspp" -> "generateYaspp"
    [] stage = "generateYaspp" -> "finalizeProject"
    [] stage = "finalizeProject" -> "generateFiles"
    [] stage = "generateFiles" -> "exit"

\* main with the error of cloneYaspp ignored.
main_ignoreCloneError(stage, e, refresh) ==
  IF stage = "finalizeProject" THEN [pc |-> "generateFiles", err |-> ""]
  ELSE IF e # "" /\ stage # "cloneYaspp" THEN [pc |-> "exit", err |-> e]
  ELSE IF stage = "copySiteContent" /\ refresh THEN [pc |-> "exit", err |-> ""]
  ELSE [pc |-> NextStage(stage), err |-> ""]

\* main returning the error of finalizeProject.
main_finalizeFatal(stage, e, refresh) ==
  IF e # "" THEN [pc |-> "exit", err |-> e]
  ELSE IF stage = "copySiteContent" /\ refresh THEN [pc |-> "exit", err |-> ""]
  ELSE [pc |-> NextStage(stage), err |-> ""]

\* main: what it does when the stage it called returns e ("" for success):
\* the stage it calls next, or "exit" and the value it returns.  The error
\* of finalizeProject is logged and not returned.
main(stage, e, refresh) ==
  IF stage = "finalizeProject" THEN [pc |-> "generateFiles", err |-> ""]
  ELSE IF e # "" THEN [pc |-> "exit", err |-> e]
  ELSE IF stage = "copySiteContent" /\ refresh THEN [pc |-> "exit", err |-> ""]
  ELSE [pc |-> NextStage(stage), err |-> ""]

\* The stage returned e to main.
Returned(stage, e) ==
  /\ pc' = main(stage, e, argv.refresh).pc
  /\ err' = main(stage, e, argv.refresh).err
  /\ stageErr' = e

\* ---- main
LoadTools ==
  /\ pc = "loadTools"
  /\ \E probe \in Probes :
       /\ probes' = probe
       /\ tools' = loadTools(probe)
       /\ Returned("loadTools",
                   IF tools'["git"] = "" \/ tools'["yarn"] = ""
                   THEN "err_tools" ELSE "")
  /\ spawned' = spawned \cup {"git --version", "yarn --version",
                              "npm --version", "npx --version"}
  /\ stages' = Append(stages, "loadTools")
  /\ UNCHANGED <<argv, cfgArgs, cfgAuto, passArgs, options, errors, passes,
                 typed, fs, fs0, fsV, fsF, written, siteOptions, fErr, asked,
                 remove, runs, prev, call>>

LoadConfig ==
  /\ pc = "loadConfig"
  /\ LET configPath ==
           Resolve(PROJECT_ROOT,
                   IF argv.config # <<>> THEN argv.config ELSE CSY_SAVED_CONFIG)
         loaded == readJSON(fs, configPath)
     IN IF FileMode(argv)
        THEN IF ~loaded.ok
             THEN Returned("loadConfig", "err_config_file") /\ cfgArgs' = cfgArgs
             ELSE Returned("loadConfig", "") /\ cfgArgs' = loaded.value
        ELSE Returned("loadConfig", "") /\ cfgArgs' = argv.rest
  /\ cfgAuto' = (argv.autoReply \/ argv.refresh)
  /\ UNCHANGED <<argv, passArgs, options, errors, passes, typed, tools, probes, fs, fs0,
                 fsV, fsF, spawned, written, stages, siteOptions, fErr, asked,
                 remove, runs, prev, call>>

\* One pass of getConfiguration with its confirmation; an "edit again"
\* answer makes the next pass start from the collected options.  Typed
\* replies are tried in plain runs; in the others every prompt is answered
\* with Enter.  "Configuration errors" stands for errors.join('\n'), the
\* value getConfiguration returns when a pass has pushed an error.
ConfigurationPass ==
  /\ pc = "getConfiguration"
  /\ \E input \in (IF cfgAuto \/ ~PlainRun(argv) THEN {AllEnter}
                   ELSE Inputs[MaxTyped - typed]),
        edit \in (IF cfgAuto THEN {<<>>} ELSE ConfirmReplies) :
       LET pass == getConfiguration(cfgArgs, cfgAuto, input, fs, PROJECT_ROOT)
           again == ~cfgAuto /\ confirm(Len(pass.errors) > 0, edit)
       IN /\ \A field \in Fields \ pass.prompted : input[field] = <<>>
          /\ again => passes + 1 < MaxPasses
          /\ passArgs' = cfgArgs
          /\ options' = pass.options
          /\ errors' = pass.errors
          /\ typed' = typed + TypedCount(input)
          /\ IF again
             THEN /\ cfgArgs' = pass.options
                  /\ cfgAuto' = FALSE
                  /\ UNCHANGED <<pc, err, stageErr>>
             ELSE /\ cfgArgs' = cfgArgs
                  /\ cfgAuto' = cfgAuto
                  /\ Returned("getConfiguration",
                              IF Len(pass.errors) > 0
                              THEN "Configuration errors" ELSE "")
  /\ passes' = passes + 1
  /\ stages' = IF passes = 0 THEN Append(stages, "getConfiguration") ELSE stages
  /\ UNCHANGED <<argv, tools, probes, fs, fs0, fsV, fsF, spawned, written, siteOptions, fErr,
                 asked, remove, runs, prev, call>>

VerifyTarget ==
  /\ pc = "verifyTarget"
  /\ \E input \in ConfirmReplies, readOk \in BOOLEAN, rmOk \in BOOLEAN :
       LET res == verifyTarget(fs, [clean |-> argv.rest.clean,
                                    dryrun |-> argv.dryrun,
                                    autoReply |-> argv.autoReply],
                               options, input, readOk, rmOk)
       IN /\ ~res.asked => input = <<>>
          /\ fs' = res.fs
          /\ asked' = res.asked
          /\ remove' = (res.asked /\ confirm(FALSE, input))
          /\ Returned("verifyTarget", res.err)
  /\ fsV' = fs
  /\ stages' = Append(stages, "verifyTarget")
  \* the call of getConfiguration is over
  /\ cfgArgs' = NoOpt /\ cfgAuto' = FALSE /\ passArgs' = NoOpt
  /\ errors' = <<>> /\ passes' = 0 /\ typed' = 0
  /\ UNCHANGED <<argv, options, tools, probes, fs0, fsF, spawned, written, siteOptions,
                 fErr, runs, prev, call>>

CopySiteContent ==
  /\ pc = "copySiteContent"
  /\ \E rmOk \in BOOLEAN, gitOk \in BOOLEAN,
        failAt \in {NoFail} \cup Tree(fs, Resolve(PROJECT_ROOT, options.path)) :
       LET res == copySiteContent(fs, options, argv.dryrun \/ ~argv.content,
                                  PROJECT_ROOT, rmOk, gitOk, failAt)
       IN /\ options.path = <<>> => failAt = NoFail
          /\ fs' = res.fs
          /\ spawned' = spawned \cup res.spawned
          /\ siteOptions' = res.result
          /\ Returned("copySiteContent", res.error)
  /\ stages' = Append(stages, "copySiteContent")
  /\ UNCHANGED <<argv, cfgArgs, cfgAuto, passArgs, options, errors, passes,
                 typed, tools, probes, fs0, fsV, fsF, written, fErr, asked, remove, runs,
                 prev, call>>

CloneYaspp ==
  /\ pc = "cloneYaspp"
  /\ \E rmOk \in BOOLEAN, gitOk \in BOOLEAN :
       LET res == cloneYaspp(fs, TargetPath(options),
                             argv.dryrun \/ ~argv.content, rmOk, gitOk)
       IN /\ fs' = res.fs
          /\ spawned' = spawned \cup res.spawned
          /\ Returned("cloneYaspp", res.err)
  /\ stages' = Append(stages, "cloneYaspp")
  /\ UNCHANGED <<argv, cfgArgs, cfgAuto, passArgs, options, errors, passes,
                 typed, tools, probes, fs0, fsV, fsF, written, siteOptions, fErr, asked,
                 remove, runs, prev, call>>

GenerateYaspp ==
  /\ pc = "generateYaspp"
  /\ \E wOk \in BOOLEAN :
       LET res == generateYaspp(fs, siteOptions, argv.dryrun, wOk)
       IN /\ fs' = res.fs
          /\ written' = written \cup res.written
          /\ Returned("generateYaspp", res.error)
  /\ stages' = Append(stages, "generateYaspp")
  /\ UNCHANGED <<argv, cfgArgs, cfgAuto, passArgs, options, errors, passes,
                 typed, tools, probes, fs0, fsV, fsF, spawned, siteOptions, fErr, asked,
                 remove, runs, prev, call>>

FinalizeProject ==
  /\ pc = "finalizeProject"
  /\ \E installOk \in BOOLEAN, initOk \in BOOLEAN :
       LET res == finalizeProject(fs, TargetPath(options), tools, argv.dryrun,
                                  PROJECT_ROOT, installOk, initOk)
       IN /\ fs' = res.fs
          /\ spawned' = spawned \cup res.spawned
          /\ fErr' = res.err
          /\ Returned("finalizeProject", res.err)
  /\ fsF' = fs
  /\ stages' = Append(stages, "finalizeProject")
  /\ UNCHANGED <<argv, cfgArgs, cfgAuto, passArgs, options, errors, passes,
                 typed, tools, probes, fs0, fsV, written, siteOptions, asked,
                 remove, runs, prev, call>>

GenerateFiles ==
  /\ pc = "generateFiles"
  /\ \E wOk \in BOOLEAN :
       LET res == generateFiles(fs, options, argv.dryrun, PROJECT_ROOT,
                                WriteFaults(wOk))
       IN /\ fs' = res.fs
          /\ written' = written \cup res.written
          /\ Returned("generateFiles", res.err)
  /\ stages' = Append(stages, "generateFiles")
  /\ UNCHANGED <<argv, cfgArgs, cfgAuto, passArgs, options, errors, passes,
                 typed, tools, probes, fs0, fsV, fsF, spawned, siteOptions, fErr, asked,
                 remove, runs, prev, call>>

Next ==
  \/ Invoke
  \/ InvokeAgain
  \/ LoadTools
  \/ LoadConfig
  \/ ConfigurationPass
  \/ VerifyTarget
  \/ CopySiteContent
  \/ CloneYaspp
  \/ GenerateYaspp
  \/ FinalizeProject
  \/ GenerateFiles

Spec == Init /\ [][Next]_vars

\* ------------------------------------------ the revision with a sample site
\* A later revision of main: the content source is one option, `site`; with
\* no source the sample site that ships with the package is copied, and a
\* yaspp.config.json found in the site takes the place of the prompts.
SITE_FOLDER == "site"
YASPP_NAV == <<"yaspp.nav.json">>

\* path.resolve(__dirname, "../data/sample-site") and the nav.json template
SampleSitePath == <<"pkg", "data", "sample-site">>
NavTemplatePath == <<"pkg", "data", "templates", "nav.json.tmpl">>

NoSiteArgs ==
  [site |-> <<>>, branch |-> <<>>, contentRoot |-> <<>>, contentIndex |-> <<>>,
   localeRoot |-> <<>>, styleRoot |-> <<>>, styleIndex |-> <<>>,
   assetsRoot |-> <<>>, langs |-> <<>>, defaultLocale |-> <<>>]

\* GIT_URL_RE on the URLs of the model: scheme or git@host, then ....git
isGitUrl(url) ==
  /\ Len(url) >= 2
  /\ url[1] \in {"git@host:me", "git@github.com:imdfl"}
  /\ EndsWithSeq(NameChars(url[Len(url)]), DotGit)

RECURSIVE getContentConfiguration(_, _, _, _)
\* getContentConfiguration; replies holds, for each pass, the replies to its
\* prompts and to the "edit again" confirmation.  more = TRUE: the user asked
\* for a pass beyond the replies given.
getContentConfiguration(args, autoReply, replies, f) ==
  LET input == Head(replies)
      site == readInput(args.site, autoReply, input.site)
      isGit == isGitUrl(site)
      branch == IF site # <<>> /\ isGit
                THEN readInput(args.branch, autoReply, input.branch) ELSE <<>>
      e1 == IF site # <<>> /\ ~isGit /\ ~isFolder(f, Resolve(PROJECT_ROOT, site))
            THEN <<ErrPath>> ELSE <<>>
      e2 == IF args.branch # <<>> /\ ~isGit THEN <<ErrBranch>> ELSE <<>>
      errs == e1 \o e2
      opts == [site |-> site, branch |-> branch]
      again == ~autoReply /\ confirm(Len(errs) > 0, input.edit)
  IN IF again
     THEN IF Len(replies) = 1
          THEN [error |-> "", result |-> opts, more |-> TRUE, left |-> <<>>]
          ELSE getContentConfiguration(opts, FALSE, Tail(replies), f)
     ELSE [error |-> IF Len(errs) > 0 THEN "Configuration errors" ELSE "",
           result |-> opts, more |-> FALSE, left |-> Tail(replies)]

SiteFields == {"contentRoot", "contentIndex", "localeRoot", "styleRoot",
               "styleIndex", "assetsRoot", "langs", "defaultLocale"}

RECURSIVE getSiteConfiguration(_, _, _)
\* getConfiguration of this revision, with replies as above.
getSiteConfiguration(args, autoReply, replies) ==
  LET input == Head(replies)
      contentRoot == readInput(args.contentRoot, autoReply, input.contentRoot)
      e1 == IF contentRoot = <<>> THEN <<ErrContentRoot>> ELSE <<>>
      contentIndex == readInput(args.contentIndex, autoReply, input.contentIndex)
      e2 == IF contentIndex = <<>> THEN <<ErrContentIndex>> ELSE <<>>
      localeRoot == readInput(args.localeRoot, autoReply, input.localeRoot)
      e3 == IF localeRoot = <<>> THEN <<ErrLocaleRoot>> ELSE <<>>
      styleRoot == readInput(args.styleRoot, autoReply, input.styleRoot)
      ind == readInput(args.styleIndex, autoReply, input.styleIndex)
      styleIndex ==
        IF styleRoot = <<>> THEN <<>>
        ELSE IF ind # <<>> /\ "." \notin SeqToSet(ind) THEN ind \o ScssSuffix
        ELSE ind
      e4 == IF styleRoot # <<>> /\ styleIndex = <<>>
            THEN <<ErrStyleIndex>> ELSE <<>>
      assetsRoot == readInput(args.assetsRoot, autoReply, input.assetsRoot)
      langs == readInput(IF args.langs # <<>> THEN args.langs ELSE <<"e", "n">>,
                         autoReply, input.langs)
      parsed == parseLangs(langs)
      e5 == IF Len(parsed) = 0 THEN <<ErrLangs>> ELSE <<>>
      defaultLocale ==
        readInput(IF Len(parsed) > 0 THEN parsed[1] ELSE <<>>,
                  autoReply, input.defaultLocale)
      e6 == IF defaultLocale = <<>> \/ defaultLocale \notin SeqToSet(parsed)
            THEN <<ErrLocale>> ELSE <<>>
      errs == e1 \o e2 \o e3 \o e4 \o e5 \o e6
      opts ==
        [contentRoot |-> contentRoot, contentIndex |-> contentIndex,
         localeRoot |-> localeRoot, styleRoot |-> styleRoot,
         styleIndex |-> styleIndex, assetsRoot |-> assetsRoot,
         langs |-> langs, defaultLocale |-> defaultLocale]
      again == ~autoReply /\ confirm(Len(errs) > 0, input.edit)
  IN IF again
     THEN IF Len(replies) = 1
          THEN [error |-> "", result |-> opts, more |-> TRUE]
          ELSE getSiteConfiguration(opts, FALSE, Tail(replies))
     ELSE [error |-> IF Len(errs) > 0 THEN "Configuration errors" ELSE "",
           result |-> opts, more |-> FALSE]

\* optionsToConfig putting the content root under the site folder.
optionsToConfig_rooted(opts, navPath) ==
  [ysp |-> [contentRoot |-> <<SITE_FOLDER>> \o opts.contentRoot,
            contentIndex |-> opts.contentIndex,
            localeRoot |-> opts.localeRoot,
            langs |-> parseLangs(opts.langs),
            defaultLocale |-> opts.defaultLocale,
            styleRoot |-> opts.styleRoot,
            styleIndex |-> IF opts.styleRoot # <<>> THEN opts.styleIndex
                           ELSE <<>>,
            assetsRoot |-> opts.assetsRoot],
   nav |-> navPath]

\* optionsToConfig(options, navPath): the descriptor and its nav index
optionsToConfig(opts, navPath) ==
  [ysp |-> [contentRoot |-> opts.contentRoot,
            contentIndex |-> opts.contentIndex,
            localeRoot |-> opts.localeRoot,
            langs |-> parseLangs(opts.langs),
            defaultLocale |-> opts.defaultLocale,
            styleRoot |-> opts.styleRoot,
            styleIndex |-> IF opts.styleRoot # <<>> THEN opts.styleIndex
                           ELSE <<>>,
            assetsRoot |-> opts.assetsRoot],
   nav |-> navPath]

\* adaptConfigToPath(config, paths): paths.site and paths.target are path
\* strings, root the relative path from the target to the site.
adaptConfigToPath(config, paths) ==
  LET root == IF paths.site # <<>> THEN diffPathsFolded(paths.target, paths.site)
              ELSE <<>>
      addRoot(path) ==
        IF path # <<>> /\ PathChars(root) # <<>> THEN root \o path ELSE path
  IN [ysp |-> [config EXCEPT
                 !.contentRoot = addRoot(config.contentRoot),
                 !.localeRoot = addRoot(config.localeRoot),
                 !.assetsRoot = addRoot(config.assetsRoot),
                 !.styleRoot = addRoot(config.styleRoot),
                 !.styleIndex = IF config.styleRoot # <<>> THEN config.styleIndex
                                ELSE <<>>],
      nav |-> paths.nav]

\* errorResult(copyErr) or successResult(path) after copyFolderContent
copyResult(copied, path) ==
  [fs |-> copied.fs, error |-> copied.err,
   result |-> IF copied.err # "" THEN <<>> ELSE Str(path)]

\* copyDefaultSite.  The test `!utils.isEmpty(...)` negates a promise, which
\* is never true, so a site folder that is in the way is not kept.
copyDefaultSite(f, target, dry, rmOk, failAt) ==
  IF dry THEN [fs |-> f, error |-> "", result |-> Str(target \o <<SITE_FOLDER>>)]
  ELSE copyResult(copyFolderContent(f, SampleSitePath, target \o <<SITE_FOLDER>>,
                                    rmOk, failAt),
                  target \o <<SITE_FOLDER>>)

\* copyContent of this revision: a dry run returns the empty site path.
copySitePath(f, path, target, dry, rmOk, failAt) ==
  IF dry THEN [fs |-> f, error |-> "", result |-> <<>>]
  ELSE copyResult(copyFolderContent(f, Resolve(PROJECT_ROOT, path),
                                    target \o <<SITE_FOLDER>>, rmOk, failAt),
                  target \o <<SITE_FOLDER>>)

\* copySiteContent(options, target, dry) of this revision
copySite(f, opts, target, dry, rmOk, gitOk, failAt) ==
  IF opts.site = <<>> THEN copyDefaultSite(f, target, dry, rmOk, failAt)
  ELSE IF isGitUrl(opts.site)
  THEN LET cloneRes == cloneRepository(f, opts.site, dry, opts.branch,
                                       SITE_FOLDER, target, rmOk, gitOk)
       IN [fs |-> cloneRes.fs, error |-> cloneRes.error,
           result |-> cloneRes.result]
  ELSE copySitePath(f, opts.site, target, dry, rmOk, failAt)

\* verifyTarget(target, {dryrun, content}) of this revision
verifySiteTarget(f, target, dryrun, content, readOk) ==
  LET made == IF dryrun THEN [fs |-> f, err |-> ""] ELSE mkdir(f, target)
      emptyRes == isEmpty(made.fs, target, FALSE, readOk)
  IN IF made.err # "" THEN [fs |-> made.fs, err |-> "Failed to find or create target folder"]
     ELSE IF content = FALSE THEN [fs |-> made.fs, err |-> ""]
     ELSE IF emptyRes.error # "" THEN [fs |-> made.fs, err |-> emptyRes.error]
     ELSE IF emptyRes.result = FALSE
          THEN [fs |-> made.fs, err |-> "Target folder not empty"]
          ELSE [fs |-> made.fs, err |-> ""]

\* validateSiteConfig: null (ok = FALSE) without the three mandatory values
validateSiteConfig(raw) ==
  IF ~raw.ok THEN [ok |-> FALSE, value |-> NoYsp]
  ELSE IF raw.value.contentRoot = <<>> \/ raw.value.contentIndex = <<>>
          \/ raw.value.localeRoot = <<>>
       THEN [ok |-> FALSE, value |-> NoYsp]
  ELSE [ok |-> TRUE,
        value |-> [raw.value EXCEPT
                     !.langs = IF raw.value.langs # <<>> THEN raw.value.langs
                               ELSE <<LangEn>>,
                     !.defaultLocale =
                       IF raw.value.defaultLocale # <<>>
                       THEN raw.value.defaultLocale ELSE LangEn,
                     !.styleIndex = IF raw.value.styleRoot # <<>>
                                    THEN raw.value.styleIndex ELSE <<>>]]

\* readJSON of a project descriptor: the object the file holds.
readDescriptor(f, path) ==
  IF isFile(f, path) /\ f[path].tag = "yaspp.config.json"
  THEN [ok |-> TRUE, value |-> f[path].ysp]
  ELSE [ok |-> FALSE, value |-> NoYsp]

\* loadConfigFromProject(sitePath, autoReply): sitePath is a path string;
\* useIt is the reply to the confirmation.
loadConfigFromProject(f, sitePath, autoReply, useIt) ==
  LET configPath == Resolve(PROJECT_ROOT, sitePath \o CSY_YASPP_CONFIG)
      siteConfig == validateSiteConfig(readDescriptor(f, configPath))
  IN IF siteConfig.ok /\ ~autoReply /\ ~confirm(TRUE, useIt)
     THEN [ok |-> FALSE, value |-> NoYsp]
     ELSE siteConfig

\* verifySiteNav: the full path of the navigation file, "" for none.  The
\* descriptors of the model name no navigation file of their own.
verifySiteNav(f, projectRoot, sitePath, dry, wOk) ==
  IF sitePath = <<>> THEN [fs |-> f, result |-> <<>>]
  ELSE LET navPath == Resolve(PROJECT_ROOT, sitePath \o YASPP_NAV)
           trgPath == projectRoot \o YASPP_NAV
       IN IF isFile(f, navPath) THEN [fs |-> f, result |-> Str(navPath)]
          ELSE IF dry THEN [fs |-> f, result |-> <<>>]
          ELSE IF ~isFile(f, NavTemplatePath) THEN [fs |-> f, result |-> <<>>]
          ELSE IF CanWrite(f, trgPath, wOk)
               THEN [fs |-> With(f, trgPath, FileNode("nav.json.tmpl")),
                     result |-> Str(trgPath)]
               ELSE [fs |-> f, result |-> <<>>]

\* generateYaspp(target, config, dry) of this revision
generateDescriptor(f, target, config, dry, wOk) ==
  LET yPath == target \o CSY_YASPP_CONFIG
      node == [kind |-> "file", tag |-> "yaspp.config.json", opt |-> NoOpt,
               ysp |-> config.ysp]
  IN IF dry THEN [fs |-> f, error |-> ""]
     ELSE IF CanWrite(f, yPath, wOk)
          THEN [fs |-> With(f, yPath, node), error |-> ""]
          ELSE [fs |-> f, error |-> "Failed to generate yaspp.config.json"]

\* finalizeProject of this revision: the init script runs in the target.
finalizeSite(f, target, tls, dryrun, installOk, initOk) ==
  IF tls["yarn"] = "" /\ tls["npm"] = ""
  THEN [fs |-> f, err |-> "neither yarn nor npm available"]
  ELSE
    LET cwdInstall == target \o <<"yaspp">>
        installStatus0 == dryrun \/ (installOk /\ isFolder(f, cwdInstall))
        f1 == IF ~dryrun /\ installStatus0
              THEN With(f, cwdInstall \o <<"node_modules">>, FolderNode)
              ELSE f
        initStatus0 == dryrun \/ (initOk /\ isFolder(f1, target \o <<"yaspp">>))
    IN IF ~installStatus0 THEN [fs |-> f1, err |-> "Failed to run yarn/npm"]
       ELSE IF ~initStatus0 THEN [fs |-> f1, err |-> "Failed to run init-yaspp"]
       ELSE [fs |-> f1, err |-> ""]

\* generateFiles(target, options, dry) of this revision: the side-car (when
\* there are options) and the two templates go to the target.
generateSiteFiles(f, target, hasOptions, opts, dry, wOk) ==
  LET savedPath == target \o CSY_SAVED_CONFIG
      saved == [kind |-> "file", tag |-> "yaspp.site.json", opt |-> opts,
                ysp |-> NoYsp]
      f1 == IF hasOptions /\ ~dry /\ CanWrite(f, savedPath, wOk)
            THEN With(f, savedPath, saved) ELSE f
      done == generateCopies(f1, 1, dry, target, WriteFaults(wOk))
  IN done.fs

\* The options object that main reads from the --config file.
readSaved(f, path) ==
  IF isFile(f, path) /\ f[path].tag = "yaspp.site.json"
  THEN [ok |-> TRUE, value |-> f[path].opt]
  ELSE [ok |-> FALSE, value |-> NoSiteArgs]

\* main of this revision, from the parsed command line a in the file system
\* f; x holds what the environment does: the outcome of each probe, the
\* replies of the user, and which system calls fail.  The record s is the
\* frame of main: its locals, the file system, and what it has returned.
Returning(s, e, stage) == [s EXCEPT !.err = e, !.returned = TRUE, !.stage = stage]

\* loadTools and the --config file
mainLoad(a, f, x) ==
  LET tls == loadTools(x.probe)
      fromFile == a.config # <<>> \/ a.refresh
      configPath ==
        Resolve(PROJECT_ROOT,
                IF a.config # <<>> THEN a.config ELSE CSY_SAVED_CONFIG)
      loaded == readSaved(f, configPath)
      s == [a |-> a, x |-> x, fs |-> f, err |-> "", returned |-> FALSE,
            stage |-> "", more |-> FALSE, tls |-> tls, fromFile |-> fromFile,
            args |-> IF fromFile THEN loaded.value ELSE a.rest,
            target |-> Resolve(PROJECT_ROOT, a.target),
            content |-> [site |-> <<>>, branch |-> <<>>], sitePath |-> <<>>,
            siteConfig |-> [ok |-> FALSE, value |-> NoYsp],
            opts |-> NoSiteArgs, config |-> optionsToConfig(NoSiteArgs, <<>>)]
  IN IF tls["git"] = "" \/ tls["yarn"] = "" THEN Returning(s, "err_tools", "loadTools")
     ELSE IF fromFile /\ ~loaded.ok THEN Returning(s, "err_config_file", "readJSON")
     ELSE s

\* verifyTarget and getContentConfiguration
mainTarget(s) ==
    LET vt == verifySiteTarget(s.fs, s.target, s.a.dryrun, s.a.content, s.x.readOk)
        cc == getContentConfiguration(s.args, s.a.autoReply \/ s.a.refresh,
                                      s.x.content, vt.fs)
        t == [s EXCEPT !.fs = vt.fs]
    IN IF vt.err # "" THEN Returning(t, vt.err, "verifyTarget")
       ELSE IF cc.more
            THEN [Returning(t, "", "getContentConfiguration") EXCEPT !.more = TRUE]
       ELSE IF cc.error # "" THEN Returning(t, cc.error, "getContentConfiguration")
       ELSE [t EXCEPT !.content = cc.result]

\* main after copySiteContent has returned siteRes: the configuration is
\* the descriptor of the site, or comes from getConfiguration
mainConfiguration(s, siteRes) ==
  LET t == [s EXCEPT !.fs = siteRes.fs, !.sitePath = siteRes.result]
      siteConfig ==
        IF s.fromFile THEN [ok |-> FALSE, value |-> NoYsp]
        ELSE loadConfigFromProject(siteRes.fs, siteRes.result, s.a.autoReply,
                                   s.x.useIt)
      valid == getSiteConfiguration(s.args, s.a.autoReply \/ s.a.refresh,
                                    s.x.config)
  IN IF siteRes.error # "" THEN Returning(t, siteRes.error, "copySiteContent")
     ELSE IF s.a.refresh THEN Returning(t, "", "copySiteContent")
     ELSE IF siteConfig.ok THEN [t EXCEPT !.siteConfig = siteConfig]
     ELSE IF valid.more
          THEN [Returning(t, "", "getConfiguration") EXCEPT !.more = TRUE]
     ELSE IF valid.error # "" THEN Returning(t, valid.error, "getConfiguration")
     ELSE [t EXCEPT !.opts = [field \in DOMAIN NoSiteArgs |->
                                IF field \in {"site", "branch"}
                                THEN s.content[field]
                                ELSE valid.result[field]]]

\* copySiteContent, then the configuration
mainContent(s) ==
  mainConfiguration(s, copySite(s.fs, s.content, s.target,
                                s.a.dryrun \/ ~s.a.content, s.x.rmOk, s.x.gitOk,
                                s.x.failAt))

\* cloneYaspp, verifySiteNav and generateYaspp
mainYaspp(s) ==
    LET ysp == cloneYaspp(s.fs, s.target, s.a.dryrun \/ ~s.a.content, s.x.rmOk,
                          s.x.gitOk)
        nav == verifySiteNav(ysp.fs, s.target, s.sitePath, s.a.dryrun, s.x.wOk)
        navPath == diffPathsFolded(Str(s.target), nav.result)
        finalConfig ==
          IF ~s.siteConfig.ok THEN optionsToConfig(s.opts, navPath)
          ELSE adaptConfigToPath(s.siteConfig.value,
                                 [site |-> s.sitePath, nav |-> navPath,
                                  target |-> Str(s.target)])
        gen == generateDescriptor(nav.fs, s.target, finalConfig, s.a.dryrun,
                                  s.x.wOk)
    IN IF ysp.err # "" THEN Returning([s EXCEPT !.fs = ysp.fs], ysp.err, "cloneYaspp")
       ELSE IF nav.result = <<>>
            THEN Returning([s EXCEPT !.fs = nav.fs],
                           "Failed to create site navigation file", "verifySiteNav")
       ELSE IF gen.error # ""
            THEN Returning([s EXCEPT !.fs = gen.fs], gen.error, "generateYaspp")
       ELSE [s EXCEPT !.fs = gen.fs, !.config = finalConfig]

\* finalizeProject and generateFiles, whose errors are only logged
mainFinish(s) ==
    LET fin == finalizeSite(s.fs, s.target, s.tls, s.a.dryrun, s.x.installOk,
                            s.x.initOk)
        files == generateSiteFiles(fin.fs, s.target, ~s.siteConfig.ok, s.opts,
                                   s.a.dryrun, s.x.wOk)
    IN Returning([s EXCEPT !.fs = files], "", "generateFiles")

\* ---- the runs of this revision
\* The package: the nav.json template and the sample site, which may hold a
\* navigation file and a descriptor of its own.
SampleYsp ==
  [NoYsp EXCEPT !.contentRoot = <<"docs">>, !.contentIndex = <<"docs">>,
                !.localeRoot = <<"locales">>, !.langs = <<LangEn>>,
                !.defaultLocale = LangEn]

PkgFolders == {<<"pkg">>, <<"pkg", "data">>, <<"pkg", "data", "templates">>,
               SampleSitePath, SampleSitePath \o <<"docs">>}
PkgFiles == {NavTemplatePath, SampleSitePath \o <<"docs", "a.md">>}

Packages ==
  {FSOf(PkgFolders, PkgFiles),
   FSOf(PkgFolders, PkgFiles \cup {SampleSitePath \o YASPP_NAV}),
   With(FSOf(PkgFolders, PkgFiles \cup {SampleSitePath \o YASPP_NAV}),
        SampleSitePath \o CSY_YASPP_CONFIG,
        [kind |-> "file", tag |-> "yaspp.config.json", opt |-> NoOpt,
         ysp |-> SampleYsp])}

BaseSiteArgs ==
  [NoSiteArgs EXCEPT !.contentRoot = <<"content">>, !.contentIndex = <<"docs">>,
                     !.localeRoot = <<"locales">>, !.langs = LangEn]

\* The working directory: empty; with the content folder src; with a target
\* out that holds a site already; with a saved configuration.
WorkDirs ==
  {FSOf({<<"w">>}, {}),
   FSOf(SrcFolders, SrcFiles),
   FSOf({<<"w">>, <<"w", "out">>, <<"w", "out", "site">>},
        {<<"w", "out", "site", "yaspp.nav.json">>}),
   With(FSOf({<<"w">>}, {}), <<"w", "yaspp.site.json">>,
        ConfigNode(BaseSiteArgs))}

Union(f, g) == [q \in DOMAIN f \cup DOMAIN g |-> IF q \in DOMAIN f THEN f[q] ELSE g[q]]

SiteFS == {Union(p, w) : p \in Packages, w \in WorkDirs}

SiteRests ==
  {NoSiteArgs,
   BaseSiteArgs,
   [BaseSiteArgs EXCEPT !.site = <<"src">>, !.styleRoot = <<"styles">>,
                        !.styleIndex = <<"m">>],
   [BaseSiteArgs EXCEPT !.site = SiteRepo, !.branch = <<"dev">>]}

\* The command lines: with --config or --refresh the values come from the
\* file; --no-content is tried without --dryrun.
SiteArgvs ==
  {a \in [dryrun : BOOLEAN, autoReply : BOOLEAN, refresh : BOOLEAN,
          config : {<<>>, CSY_SAVED_CONFIG}, content : BOOLEAN,
          target : TargetArgs, rest : SiteRests] :
     /\ (a.config # <<>> \/ a.refresh) => a.rest = NoSiteArgs
     /\ ~a.content => ~a.dryrun}

\* What the environment does in a run where nothing fails and every prompt
\* is answered with Enter.
EnterContent == [site |-> <<>>, branch |-> <<>>, edit |-> <<>>]
EnterConfig == [field \in SiteFields \cup {"edit"} |-> <<>>]

Nominal ==
  [probe |-> [tool \in Tools |-> ProbeOk], readOk |-> TRUE, rmOk |-> TRUE,
   gitOk |-> TRUE, failAt |-> NoFail, wOk |-> TRUE, installOk |-> TRUE,
   initOk |-> TRUE, useIt |-> <<>>, content |-> <<EnterContent>>,
   config |-> <<EnterConfig>>]

\* One thing fails.
Faults ==
  {[Nominal EXCEPT !.probe = [tool \in Tools |-> IF tool = "git" THEN ProbeFail
                                                   ELSE ProbeOk]],
   [Nominal EXCEPT !.readOk = FALSE],
   [Nominal EXCEPT !.gitOk = FALSE],
   [Nominal EXCEPT !.failAt = SampleSitePath],
   [Nominal EXCEPT !.wOk = FALSE],
   [Nominal EXCEPT !.installOk = FALSE],
   [Nominal EXCEPT !.initOk = FALSE]}

RECURSIVE Editing(_, _, _)
\* The replies to at most n passes: "y" to "edit again" in all but the last.
Editing(first, later, n) ==
  IF n <= 1 THEN {<<r>> : r \in first}
  ELSE {<<r>> : r \in first}
       \cup {<<[r EXCEPT !.edit = <<"y">>]>> \o rest :
               r \in first, rest \in Editing(later, later, n - 1)}

\* The user types a content path, or a content root, or declines the
\* descriptor of the site.
Typing ==
  {[Nominal EXCEPT !.content = c, !.config = g, !.useIt = u] :
     c \in Editing({EnterContent}, {EnterContent, [EnterContent EXCEPT !.site = <<" ", "src">>]},
                   MaxPasses),
     g \in Editing({EnterConfig}, {EnterConfig, [EnterConfig EXCEPT !.contentRoot = <<" ", "docs">>]},
                   MaxPasses),
     u \in {<<>>, <<"n">>}}

Environments(a) ==
  IF a.autoReply \/ a.refresh THEN {Nominal} \cup Faults ELSE Typing

\* The process is started: the command line, the file system and the
\* environment it runs in.
InitSite ==
  /\ InitProgram
  /\ fs = FSOf({<<"w">>}, {})
  /\ call \in UNION {{[op |-> "main", pc |-> "start", a |-> a, fs |-> f, x |-> x] :
                        f \in SiteFS, x \in Environments(a)} :
                     a \in SiteArgvs}

\* main goes on from the frame s, unless the user asks for more passes than
\* there are replies.
Continue(s, next) ==
  /\ ~s.more
  /\ call' = [op |-> "main", pc |-> IF s.returned THEN "exit" ELSE next, s |-> s]
  /\ UNCHANGED program

MainLoad ==
  /\ call.op = "main" /\ call.pc = "start"
  /\ Continue(mainLoad(call.a, call.fs, call.x), "verifyTarget")

MainTarget ==
  /\ call.op = "main" /\ call.pc = "verifyTarget"
  /\ Continue(mainTarget(call.s), "copySiteContent")

MainContent ==
  /\ call.op = "main" /\ call.pc = "copySiteContent"
  /\ Continue(mainContent(call.s), "cloneYaspp")

MainYaspp ==
  /\ call.op = "main" /\ call.pc = "cloneYaspp"
  /\ Continue(mainYaspp(call.s), "finalizeProject")

MainFinish ==
  /\ call.op = "main" /\ call.pc = "finalizeProject"
  /\ Continue(mainFinish(call.s), "exit")

NextSite ==
  \/ MainLoad
  \/ MainTarget
  \/ MainContent
  \/ MainYaspp
  \/ MainFinish

SpecSite == InitSite /\ [][NextSite]_vars

\* ------------------------------------------------- copyFolderContent alone
\* The source folder w/src with some of its entries, and what is at the
\* destination w/out before the copy: nothing, an empty folder, or a folder
\* with some entries, stale ones or ones the source has too.
CopyTrees ==
  {FSOf({<<"w">>, <<"w", "src">>} \cup sd \cup dd, sf \cup df) :
     sd \in {{}, {<<"w", "src", "docs">>}},
     sf \in {{}, {<<"w", "src", "a.md">>}},
     dd \in {{}, {<<"w", "out">>}, {<<"w", "out">>, <<"w", "out", ".git">>},
             {<<"w", "out">>, <<"w", "out", "docs">>}},
     df \in {{}, {<<"w", "out", "old.txt">>}, {<<"w", "out", "a.md">>},
             {<<"w", "out", "docs", "b.md">>}}}

\* copyFolderContent(w/src, w/out) is called in one of these file systems;
\* rimraf may fail and one copyFile may throw.
InitCopy ==
  /\ InitProgram
  /\ fs = FSOf({<<"w">>}, {})
  /\ call \in {[op |-> "copyFolderContent", copies |-> 0, fs0 |-> f, fs |-> f,
                err |-> "", rmOk |-> r, failAt |-> x] :
                 f \in {g \in CopyTrees :
                          \A q \in DOMAIN g :
                            Len(q) > 1 => SubSeq(q, 1, Len(q) - 1) \in DOMAIN g},
                 r \in BOOLEAN, x \in {NoFail, <<"w", "src", "a.md">>}}

\* The call, and the same call made once more after a success.
CopyFolderContent ==
  /\ call.op = "copyFolderContent"
  /\ call.copies < MaxCopies
  /\ call.err = ""
  /\ LET res == copyFolderContent(call.fs, <<"w", "src">>, <<"w", "out">>,
                                  call.rmOk, call.failAt)
     IN call' = [call EXCEPT !.copies = @ + 1, !.fs = res.fs, !.err = res.err]
  /\ UNCHANGED program

NextCopy == CopyFolderContent

SpecCopy == InitCopy /\ [][NextCopy]_vars

\* ---------------------------------------------------------- diffPaths alone
RECURSIVE PathsOfDepth(_)
\* The absolute paths of n folders, named w, src, Src or docs.
PathsOfDepth(n) ==
  IF n = 0 THEN {<<>>}
  ELSE {Append(p, name) : p \in PathsOfDepth(n - 1),
                          name \in {"w", "src", "Src", "docs"}}

\* diffPaths(fromPath, toPath) is called with two absolute folder paths, in
\* the revision that folds the case (fold) or in the one that does not.
InitDiff ==
  /\ InitProgram
  /\ fs = FSOf({<<"w">>}, {})
  /\ call \in {[op |-> "diffPaths", fromPath |-> a, toPath |-> b, fold |-> c,
                done |-> FALSE, result |-> <<>>] :
                 a \in UNION {PathsOfDepth(n) : n \in 1..MaxDepth},
                 b \in UNION {PathsOfDepth(n) : n \in 1..MaxDepth},
                 c \in BOOLEAN}

DiffPaths ==
  /\ call.op = "diffPaths"
  /\ ~call.done
  /\ call' = [call EXCEPT
                !.done = TRUE,
                !.result = IF call.fold
                           THEN diffPathsFolded(Str(call.fromPath), Str(call.toPath))
                           ELSE diffPaths(Str(call.fromPath), Str(call.toPath))]
  /\ UNCHANGED program

NextDiff == DiffPaths

SpecDiff == InitDiff /\ [][NextDiff]_vars

\* --------------------------------------------------------- parseLangs alone
RECURSIVE StringsOfLen(_)
\* The strings of n characters: a letter, the two joiners, the separators.
StringsOfLen(n) ==
  IF n = 0 THEN {<<>>}
  ELSE {Append(s, c) : s \in StringsOfLen(n - 1), c \in {"e", "-", "_", ",", " "}}

\* parseLangs(langs) is called with a short string, or with one of the
\* longer ones that a user may type.
LangsTyped ==
  {<<"e", "n", ",", " ", "f", "r", "-", "C", "A", " ", " ", "d", "e">>,
   <<"e", ",", " ", " ", "1", "2", "3">>,
   <<"e", "n", "1", ",", "e", "n", "-", "e", "e", "e", "e", "e", "e">>}

InitLangs ==
  /\ InitProgram
  /\ fs = FSOf({<<"w">>}, {})
  /\ call \in {[op |-> "parseLangs", langs |-> s, done |-> FALSE, result |-> <<>>] :
                 s \in LangsTyped \cup UNION {StringsOfLen(n) : n \in 0..MaxLangsLen}}

ParseLangs ==
  /\ call.op = "parseLangs"
  /\ ~call.done
  /\ call' = [call EXCEPT !.done = TRUE, !.result = parseLangs(call.langs)]
  /\ UNCHANGED program

NextLangs == ParseLangs

SpecLangs == InitLangs /\ [][NextLangs]_vars

\* --------------------------------------------------- getConfiguration alone
\* getConfiguration(args, autoReply) is called in the working directory that
\* holds the folder src, with values for none, some or all of the fields.
InitConfiguration ==
  /\ InitProgram
  /\ fs = FSOf(SrcFolders, SrcFiles)
  /\ call \in {[op |-> "getConfiguration", args |-> a, autoReply |-> au,
                passes |-> 0, typed |-> 0, prompted |-> {}, asked |-> FALSE,
                reply |-> <<>>, options |-> NoOpt, errors |-> <<>>,
                done |-> FALSE] :
                 a \in Rests \cup {CfgBoth, CfgStyle}, au \in BOOLEAN}

\* One pass: the prompts, the listing of the options and of the errors, the
\* confirmation when autoReply is off, and on "edit again" the recursive call
\* getConfiguration(options).
GetConfiguration ==
  /\ call.op = "getConfiguration"
  /\ ~call.done
  /\ \E input \in (IF call.autoReply THEN {AllEnter}
                   ELSE Inputs[MaxTyped - call.typed]),
        edit \in (IF call.autoReply THEN {<<>>}
                  ELSE ConfirmReplies \cup {<<"n", "o">>, <<" ", "y", "e", "s">>}) :
       LET pass == getConfiguration(call.args, call.autoReply, input, fs,
                                    PROJECT_ROOT)
           again == ~call.autoReply /\ confirm(Len(pass.errors) > 0, edit)
       IN /\ \A field \in Fields \ pass.prompted : input[field] = <<>>
          /\ again => call.passes + 1 < MaxPasses
          /\ call' = [call EXCEPT !.args = IF again THEN pass.options ELSE @,
                                  !.autoReply = IF again THEN FALSE ELSE @,
                                  !.passes = @ + 1,
                                  !.typed = @ + TypedCount(input),
                                  !.prompted = pass.prompted,
                                  !.asked = ~call.autoReply,
                                  !.reply = edit,
                                  !.options = pass.options,
                                  !.errors = pass.errors,
                                  !.done = ~again]
  /\ UNCHANGED program

NextConfiguration == GetConfiguration

SpecConfiguration == InitConfiguration /\ [][NextConfiguration]_vars

\* ----------------------------------- copyFolderContent on any two folders
\* The folder w/site with a file and a subfolder; beside it nothing, the
\* folder w/out, or the folder w/site.git.
GuardTrees ==
  {FSOf({<<"w">>, <<"w", "site">>, <<"w", "site", "docs">>} \cup extra,
        {<<"w", "site", "a.md">>, <<"w", "site", "docs", "b.md">>}) :
     extra \in {{}, {<<"w", "out">>}, {<<"w", "site.git">>},
                {<<"w", "out">>, <<"w", "out", "site">>}}}

GuardPaths ==
  {<<"w">>, <<"w", "site">>, <<"w", "site", "docs">>, <<"w", "site.git">>,
   <<"w", "out">>, <<"w", "out", "site">>, <<"w", "site", "out">>}

InitGuard ==
  /\ InitProgram
  /\ fs = FSOf({<<"w">>}, {})
  /\ call \in {[op |-> "copyFolderContent(src, target)", srcPath |-> s,
                targetPath |-> t, fs0 |-> f, fs |-> f, err |-> "", rmOk |-> r,
                done |-> FALSE] :
                 f \in GuardTrees, s \in GuardPaths, t \in GuardPaths,
                 r \in BOOLEAN}

CopyGuarded ==
  /\ call.op = "copyFolderContent(src, target)"
  /\ ~call.done
  /\ LET res == copyFolderContent(call.fs, call.srcPath, call.targetPath,
                                  call.rmOk, NoFail)
     IN call' = [call EXCEPT !.fs = res.fs, !.err = res.err, !.done = TRUE]
  /\ UNCHANGED program

NextGuard == CopyGuarded

SpecGuard == InitGuard /\ [][NextGuard]_vars

\* --------------------------------------------------------- isEmpty alone
\* The folder w/out holding any of these folders and files, each with its
\* parent; or w/out absent.
EmptyTrees ==
  {FSOf({<<"w">>}, {})} \cup
  {g \in {FSOf({<<"w">>, <<"w", "out">>} \cup d, x) :
            d \in SUBSET {<<"w", "out", "docs">>, <<"w", "out", "docs", "src">>,
                          <<"w", "out", ".git">>, <<"w", "out", "src">>},
            x \in SUBSET {<<"w", "out", "old.txt">>, <<"w", "out", "docs", "b.md">>,
                          <<"w", "out", "docs", "src", "a.md">>}} :
     \A q \in DOMAIN g : Len(q) > 1 => isFolder(g, SubSeq(q, 1, Len(q) - 1))}

InitEmpty ==
  /\ InitProgram
  /\ fs = FSOf({<<"w">>}, {})
  /\ call \in {[op |-> "isEmpty", fs |-> f, folder |-> <<"w", "out">>,
                mustExist |-> me, readOk |-> r, done |-> FALSE,
                res |-> successResult(TRUE)] :
                 f \in EmptyTrees, me \in BOOLEAN, r \in BOOLEAN}

IsEmpty ==
  /\ call.op = "isEmpty"
  /\ ~call.done
  /\ call' = [call EXCEPT !.done = TRUE,
                          !.res = isEmpty(call.fs, call.folder, call.mustExist,
                                          call.readOk)]
  /\ UNCHANGED program

NextEmpty == IsEmpty

SpecEmpty == InitEmpty /\ [][NextEmpty]_vars

\* ------------------------- the revision that copies the sample site into
\* ------------------------- the target itself (bin/create-yaspp.js)
RECURSIVE copyFolderInto(_, _, _, _, _, _)
RECURSIVE copyEntriesInto(_, _, _, _, _, _)
\* The loop of copyFolderContent({source, target, clean}) over the entries.
copyEntriesInto(f, source, target, todo, rmOk, failAt) ==
  IF todo = {} THEN [fs |-> f, err |-> "", thrown |-> FALSE]
  ELSE
    LET srcChild == CHOOSE q \in todo : TRUE
        trgChild == target \o <<BaseName(srcChild)>>
        rest == todo \ {srcChild}
    IN CASE f[srcChild].kind = "folder" ->
              LET child == copyFolderInto(f, srcChild, trgChild, TRUE, rmOk, failAt)
              IN IF child.err # ""
                 THEN [fs |-> child.fs, err |-> child.err, thrown |-> FALSE]
                 ELSE copyEntriesInto(child.fs, source, target, rest, rmOk, failAt)
         [] f[srcChild].kind = "file" ->
              IF failAt = srcChild \/ isFolder(f, trgChild)
              THEN [fs |-> f, err |-> "copy failed", thrown |-> TRUE]
              ELSE copyEntriesInto(With(f, trgChild, f[srcChild]), source, target,
                                   rest, rmOk, failAt)
         [] OTHER -> copyEntriesInto(f, source, target, rest, rmOk, failAt)

\* copyFolderContent({source, target, clean}): the target is cleared first
\* only when clean is set, and after any failure.
copyFolderInto(f, source, target, clean, rmOk, failAt) ==
  IF ~isFolder(f, source) THEN [fs |-> f, err |-> "Folder not found"]
  ELSE
    LET made == mkdir(f, target)
    IN IF made.err # "" THEN [fs |-> made.fs, err |-> made.err]
       ELSE IF IsPrefixSeq(PathChars(Str(source)), PathChars(Str(target)))
       THEN [fs |-> made.fs, err |-> "Circular copy"]
       ELSE
         LET rmTarget(g) == removeFolder(g, target, FALSE, FALSE, rmOk).fs
             cleared == IF clean THEN rmTarget(made.fs) ELSE made.fs
         IN IF failAt = source
            THEN [fs |-> rmTarget(cleared), err |-> "copy failed"]
            ELSE
              LET done == copyEntriesInto(cleared, source, target,
                                          Children(cleared, source), rmOk, failAt)
              IN IF done.err # ""
                 THEN [fs |-> rmTarget(done.fs), err |-> done.err]
                 ELSE [fs |-> done.fs, err |-> ""]

\* The collisions when only files and folders count.
Colliding_filesAndFolders(f, target) ==
  {BaseName(q) : q \in {c \in Children(f, SampleSitePath) :
                          isFileOrFolder(f, target \o <<BaseName(c)>>)}}

\* The entries of the sample site that the target already has.
Colliding(f, target) ==
  {BaseName(q) : q \in {c \in Children(f, SampleSitePath) :
                          getFileType(f, target \o <<BaseName(c)>>) # ""}}

\* verifyTarget(target, {dryrun}): readOk = FALSE is readdir of the sample
\* site throwing; first is the colliding asset that readdir lists first.
verifyAssets(f, target, dryrun, readOk, first) ==
  LET made == IF dryrun THEN [fs |-> f, err |-> ""] ELSE mkdir(f, target)
  IN IF made.err # "" THEN [fs |-> made.fs, err |-> "err_target", file |-> ""]
     ELSE IF ~readOk \/ ~isFolder(made.fs, SampleSitePath)
     THEN [fs |-> made.fs, err |-> "Error", file |-> ""]
     ELSE IF Colliding(made.fs, target) # {}
     THEN [fs |-> made.fs, err |-> "err_fileexists", file |-> first]
     ELSE [fs |-> made.fs, err |-> "", file |-> ""]

\* copyDefaultSite(target, dry)
copySampleSite(f, target, dry, rmOk, failAt) ==
  IF dry THEN [fs |-> f, err |-> ""]
  ELSE copyFolderInto(f, SampleSitePath, target, FALSE, rmOk, failAt)

\* A node that is neither a file nor a folder, such as a socket.
OtherNode == [kind |-> "other", tag |-> "", opt |-> NoOpt, ysp |-> NoYsp]

\* The target w/out before the run: absent, empty, holding entries that the
\* sample site does not have, holding one that it has, or being a file.
AssetTargets ==
  {FSOf({<<"w">>}, {}),
   FSOf({<<"w">>, <<"w", "out">>}, {}),
   FSOf({<<"w">>, <<"w", "out">>}, {<<"w", "out", "old.txt">>}),
   FSOf({<<"w">>, <<"w", "out">>, <<"w", "out", ".git">>}, {<<"w", "out", ".git", "HEAD">>}),
   FSOf({<<"w">>, <<"w", "out">>, <<"w", "out", "src">>},
        {<<"w", "out", "src", "a.md">>, <<"w", "out", ".gitignore">>}),
   FSOf({<<"w">>, <<"w", "out">>, <<"w", "out", "docs">>}, {}),
   FSOf({<<"w">>, <<"w", "out">>}, {<<"w", "out", "yaspp.nav.json">>}),
   FSOf({<<"w">>, <<"w", "out">>, <<"w", "out", "docs">>},
        {<<"w", "out", "yaspp.nav.json">>, <<"w", "out", "old.txt">>}),
   With(FSOf({<<"w">>, <<"w", "out">>}, {}), <<"w", "out", "docs">>, OtherNode),
   FSOf({<<"w">>}, {<<"w", "out">>})}

\* main(args) with --target out and --no-install, after loadTools has found
\* git and yarn.
InitAssets ==
  /\ InitProgram
  /\ fs = FSOf({<<"w">>}, {})
  /\ call \in {[op |-> "main", pc |-> "verifyTarget", dryrun |-> d,
                target |-> <<"w", "out">>, fs0 |-> f, fs |-> f, fsV |-> f,
                err |-> "", file |-> "", copied |-> FALSE] :
                 f \in {Union(p, w) : p \in Packages, w \in AssetTargets},
                 d \in BOOLEAN}

MainVerifyTarget ==
  /\ call.op = "main"
  /\ call.pc = "verifyTarget"
  /\ \E readOk \in BOOLEAN,
        first \in {""} \cup Colliding(call.fs, call.target) :
       LET res == verifyAssets(call.fs, call.target, call.dryrun, readOk, first)
       IN /\ first = "" <=> Colliding(call.fs, call.target) = {}
          /\ call' = [call EXCEPT !.fs = res.fs, !.fsV = res.fs, !.err = res.err,
                                  !.file = res.file,
                                  !.pc = IF res.err # "" THEN "exit"
                                         ELSE "copyDefaultSite"]
  /\ UNCHANGED program

MainCopyDefaultSite ==
  /\ call.op = "main"
  /\ call.pc = "copyDefaultSite"
  /\ \E rmOk \in BOOLEAN,
        failAt \in {NoFail} \cup Tree(call.fs, SampleSitePath) :
       LET res == copySampleSite(call.fs, call.target, call.dryrun, rmOk, failAt)
       IN call' = [call EXCEPT !.fs = res.fs, !.err = res.err, !.pc = "exit",
                               !.copied = TRUE]
  /\ UNCHANGED program

NextAssets == MainVerifyTarget \/ MainCopyDefaultSite

SpecAssets == InitAssets /\ [][NextAssets]_vars

\* ------------------------------------------------------ generateFiles alone
\* What the project root may hold at a destination of copies, when it holds
\* something: a file, a folder (empty), or an entry that is neither (a
\* symbolic link).
DestinationNodes == {FileNode("mine"), FolderNode, OtherNode}

ScaffoldTrees ==
  LET base == FSOf({<<"w">>, <<"w", "out">>}, {})
      at(f, p, has, n) == IF has THEN With(f, p, n) ELSE f
  IN { at(at(base, <<"w", ".gitignore">>, hg, g), <<"w", "package.json">>, hp, p) :
         hg \in BOOLEAN, g \in DestinationNodes,
         hp \in BOOLEAN, p \in DestinationNodes }

InitFiles ==
  /\ InitProgram
  /\ fs = FSOf({<<"w">>}, {})
  /\ call \in {[op |-> "generateFiles", fs0 |-> f, fs |-> f, dry |-> d,
                ok |-> k, done |-> FALSE, err |-> "none"] :
                 f \in ScaffoldTrees, d \in BOOLEAN, k \in FileFaults}

GenerateFilesAlone ==
  /\ call.op = "generateFiles"
  /\ ~call.done
  /\ LET res == generateFiles(call.fs, CfgStyle, call.dry, PROJECT_ROOT, call.ok)
     IN call' = [call EXCEPT !.done = TRUE, !.fs = res.fs, !.err = res.err]
  /\ UNCHANGED program

NextFiles == GenerateFilesAlone

SpecFiles == InitFiles /\ [][NextFiles]_vars

\* ---------------------------------------------------- captureProcessOutput
\* The adapter in the two revisions that carry it: "bin" resolves through
\* resolveWith, "ts" calls resolve in each handler.  A status is written as
\* the text of the number, "null" being the exitCode of a child that a signal
\* ended.  String(err) of any error is the line SpawnError.
Revisions == {"bin", "ts"}
ExitCodes == {"0", "1", "null"}
SpawnError == "Error: spawn"
NoResult == [status |-> "none", errors |-> <<>>, output |-> <<>>,
             sharesErrors |-> FALSE, sharesOutput |-> FALSE]

\* resolve of a promise whose later values replace the earlier ones.
resolvePromise_lastWins(c, res) ==
  [c EXCEPT !.settled = TRUE, !.result = res, !.resolves = @ + 1]

\* resolve of new Promise((resolve) => ...): the first call settles the
\* promise, later calls change nothing.
resolvePromise(c, res) ==
  IF c.settled THEN [c EXCEPT !.resolves = @ + 1]
  ELSE [c EXCEPT !.settled = TRUE, !.result = res, !.resolves = @ + 1]

\* [err, ...errors].filter(Boolean)
errorLines(e, lines) == SelectSeq(<<e>> \o lines, LAMBDA s : s # "")

\* resolveWith(status, err) of bin; e = "" is the omitted argument err.
resolveWith(c, status, e) ==
  IF c.resolved THEN c
  ELSE resolvePromise([c EXCEPT !.resolved = TRUE],
                      [status |-> status, errors |-> errorLines(e, c.errors),
                       output |-> c.output, sharesErrors |-> FALSE,
                       sharesOutput |-> TRUE])

InitProcess ==
  /\ InitProgram
  /\ fs = FSOf({<<"w">>}, {})
  /\ call \in {[op |-> "captureProcessOutput", rev |-> r, dryrun |-> d,
                throws |-> t, exitCode |-> x, pc |-> "called",
                spawns |-> 0, events |-> <<>>, output |-> <<>>,
                errors |-> <<>>, resolved |-> FALSE, settled |-> FALSE,
                resolves |-> 0, result |-> NoResult] :
                 r \in Revisions, d \in BOOLEAN, t \in BOOLEAN,
                 x \in ExitCodes}

\* The body up to the return of the promise: the dry run returns at once;
\* otherwise spawn runs, and a throw of it lands in the catch clause.
CallProcess ==
  /\ call.op = "captureProcessOutput"
  /\ call.pc = "called"
  /\ call' =
       IF call.dryrun
       THEN [resolvePromise(call, [status |-> "0", errors |-> <<>>,
                                   output |-> <<>>, sharesErrors |-> FALSE,
                                   sharesOutput |-> FALSE])
               EXCEPT !.pc = "returned"]
       ELSE IF call.throws
       THEN LET c == [call EXCEPT !.pc = "returned", !.spawns = 1]
            IN IF call.rev = "bin" THEN resolveWith(c, "3", SpawnError)
               ELSE resolvePromise(c, [status |-> "-1",
                                       errors |-> <<SpawnError>>,
                                       output |-> <<>>,
                                       sharesErrors |-> FALSE,
                                       sharesOutput |-> FALSE])
       ELSE [call EXCEPT !.pc = "listening", !.spawns = 1]
  /\ UNCHANGED program

Seen(e) == \E i \in 1..Len(call.events) : call.events[i] = e
DataSeen == Len(SelectSeq(call.events, LAMBDA e : e \in {"stdout", "stderr"}))

\* proc.on("error")
OnError ==
  /\ call.op = "captureProcessOutput"
  /\ call.pc = "listening"
  /\ ~Seen("error")
  /\ LET c == [call EXCEPT !.events = Append(@, "error")]
     IN call' = IF call.rev = "bin" THEN resolveWith(c, "2", SpawnError)
                ELSE resolvePromise(c, [status |-> "-1",
                                        errors |-> <<SpawnError>>,
                                        output |-> <<>>,
                                        sharesErrors |-> FALSE,
                                        sharesOutput |-> FALSE])
  /\ UNCHANGED program

\* proc.stderr.on('data'): the array that a settled result shares grows too.
OnStderr ==
  /\ call.op = "captureProcessOutput"
  /\ call.pc = "listening"
  /\ ~Seen("close")
  /\ DataSeen < MaxData
  /\ call' = [call EXCEPT !.events = Append(@, "stderr"),
                          !.errors = Append(@, "e"),
                          !.result.errors =
                             IF call.result.sharesErrors THEN Append(@, "e")
                             ELSE @]
  /\ UNCHANGED program

\* proc.stdout.on('data')
OnStdout ==
  /\ call.op = "captureProcessOutput"
  /\ call.pc = "listening"
  /\ ~Seen("close")
  /\ DataSeen < MaxData
  /\ call' = [call EXCEPT !.events = Append(@, "stdout"),
                          !.output = Append(@, "o"),
                          !.result.output =
                             IF call.result.sharesOutput THEN Append(@, "o")
                             ELSE @]
  /\ UNCHANGED program

\* proc.on('close')
OnClose ==
  /\ call.op = "captureProcessOutput"
  /\ call.pc = "listening"
  /\ ~Seen("close")
  /\ LET c == [call EXCEPT !.events = Append(@, "close")]
     IN call' = IF call.rev = "bin" THEN resolveWith(c, call.exitCode, "")
                ELSE resolvePromise(c, [status |-> call.exitCode,
                                        errors |-> call.errors,
                                        output |-> call.output,
                                        sharesErrors |-> TRUE,
                                        sharesOutput |-> TRUE])
  /\ UNCHANGED program

NextProcess ==
  \/ CallProcess
  \/ OnError
  \/ OnStderr
  \/ OnStdout
  \/ OnClose

SpecProcess == InitProcess /\ [][NextProcess]_vars

\* ------------------------------------------------------------ normalizePath
\* A path is the sequence of its characters here: a drive letter in either
\* case, a name character, the colon and the two separators.
PathAlphabet == {"C", "c", "a", ":", "\\", "/"}

RECURSIVE PathsOfLen(_)
PathsOfLen(n) ==
  IF n = 0 THEN {<<>>}
  ELSE {Append(s, c) : s \in PathsOfLen(n - 1), c \in PathAlphabet}

PathInputs == UNION {PathsOfLen(n) : n \in 0..MaxPathLen}

\* [A-Z] under the flag i, and toLowerCase on such a letter.
DriveLetters == {"C", "c", "a"}
toLowerCase(c) == IF c = "C" THEN "c" ELSE c

\* WIN_DEVICE_RE = /^([A-Z]):[\\\/]+/i: the length of the match, 0 for none.
RECURSIVE separatorsFrom(_, _)
separatorsFrom(s, i) ==
  IF i <= Len(s) /\ s[i] \in {"\\", "/"} THEN 1 + separatorsFrom(s, i + 1) ELSE 0

WIN_DEVICE_RE(s) ==
  IF Len(s) >= 3 /\ s[1] \in DriveLetters /\ s[2] = ":" /\ separatorsFrom(s, 3) > 0
  THEN 2 + separatorsFrom(s, 3)
  ELSE 0

\* replace(/\\/g, '/')
slashes(s) == [i \in 1..Len(s) |-> IF s[i] = "\\" THEN "/" ELSE s[i]]

\* normalizePath: ret starts as "" and is only assigned when the drive
\* prefix matched.
normalizePath(path) ==
  IF path = <<>> THEN <<>>
  ELSE LET match == WIN_DEVICE_RE(path)
           ret == IF match > 0
                  THEN <<"/", toLowerCase(path[1]), "/">>
                         \o SubSeq(path, match + 1, Len(path))
                  ELSE <<>>
       IN slashes(ret)

InitPaths ==
  /\ InitProgram
  /\ fs = FSOf({<<"w">>}, {})
  /\ call \in {[op |-> "normalizePath", path |-> p, done |-> FALSE,
                ret |-> <<>>, again |-> <<>>] : p \in PathInputs}

\* One call, and a second call on its result.
NormalizePath ==
  /\ call.op = "normalizePath"
  /\ ~call.done
  /\ call' = [call EXCEPT !.done = TRUE, !.ret = normalizePath(call.path),
                          !.again = normalizePath(normalizePath(call.path))]
  /\ UNCHANGED program

NextPaths == NormalizePath

SpecPaths == InitPaths /\ [][NextPaths]_vars

\* ------------------------------------------------------------------ claims
Last(seq) == seq[Len(seq)]

Parent(p) == SubSeq(p, 1, Len(p) - 1)

\* getConfiguration has returned to main in this run.
Resolved ==
  "getConfiguration" \in SeqToSet(stages) /\ pc # "getConfiguration"

\* C1: whenever a pass of getConfiguration is given both a repository and a
\* content path, it pushes the "Can't specify both path and repository"
\* error, so that main does not go on to verifyTarget and copySiteContent.
C1_BothRejected ==
  (passes > 0 /\ passArgs.repository # <<>> /\ passArgs.path # <<>>)
    => (ErrBoth \in SeqToSet(errors) /\ pc # "verifyTarget")

\* C2: when getConfiguration returns a success result, in auto-reply or
\* interactive mode and after any number of passes, the options have at most
\* one of repository and path, non-empty contentRoot, contentIndex and
\* localeRoot, a non-empty parsed language list that holds defaultLocale,
\* and a non-empty styleIndex whenever styleRoot is set.
C2_ValidOptions ==
  pc = "verifyTarget" =>
    /\ ~(options.repository # <<>> /\ options.path # <<>>)
    /\ options.contentRoot # <<>>
    /\ options.contentIndex # <<>>
    /\ options.localeRoot # <<>>
    /\ Len(parseLangs(options.langs)) > 0
    /\ options.defaultLocale \in SeqToSet(parseLangs(options.langs))
    /\ (options.styleRoot # <<>> => options.styleIndex # <<>>)

\* C2 witness: an interactive resolution succeeds on its second pass, after
\* a pass that ended with errors, with a style root and two languages.
C2_Witness ==
  /\ pc = "verifyTarget"
  /\ passes = 2
  /\ passArgs.styleIndex = <<>>
  /\ options.styleRoot # <<>>
  /\ Len(parseLangs(options.langs)) = 2

\* C3: a run whose content path does not name an existing folder ends at
\* configuration validation with exit code 1; it has created, written and
\* deleted nothing, and verifyTarget and the later stages were not started.
C3_MissingPathFails ==
  (/\ Resolved
   /\ options.path # <<>>
   /\ ~isFolder(fs0, Resolve(PROJECT_ROOT, options.path)))
    => /\ pc = "exit"
       /\ exit(err) = 1
       /\ Last(stages) = "getConfiguration"
       /\ fs = fs0
       /\ written = {}

\* C3 witness: a run given a content path that is no folder has ended.
C3_Witness ==
  /\ pc = "exit"
  /\ options.path = <<"missing">>
  /\ ErrPath \in SeqToSet(errors)
  /\ exit(err) = 1

\* C4: the stages of main are started in the fixed order, one after the
\* other, and when a stage other than finalizeProject returns an error, main
\* returns that error at once: no later stage is started and the exit code
\* is 1.
C4_Sequential ==
  /\ IsPrefixSeq(stages, StageOrder)
  /\ (stageErr # "" /\ Last(stages) # "finalizeProject")
       => (pc = "exit" /\ err = stageErr /\ exit(err) = 1)

\* C4 witness: the clone of the library failed and the run has ended with
\* generateYaspp, finalizeProject and generateFiles not started.
C4_Witness ==
  /\ pc = "exit"
  /\ stages # <<>>
  /\ Last(stages) = "cloneYaspp"
  /\ stageErr = "Clone error"

VersionProbes ==
  {"git --version", "yarn --version", "npm --version", "npx --version"}

\* C5: in a dry run nothing is created, written or deleted on disk, and no
\* external command is run except the `--version` probes.
C5_DryRun ==
  argv.dryrun => (fs = fs0 /\ written = {} /\ spawned \subseteq VersionProbes)

\* C5 witness: a dry run with --clean, a content path and a target that is
\* not empty has gone through every stage.
C5_Witness ==
  /\ argv.dryrun
  /\ argv.rest.clean
  /\ options.path # <<>>
  /\ Children(fs, TargetPath(options)) # {}
  /\ pc = "exit"
  /\ err = ""
  /\ stages = StageOrder

\* C6: in a run that is not a dry run, when verifyTarget finds an entry in
\* the target, then without --clean and without a yes to the delete
\* confirmation the run ends with an error and the target as it was, and
\* with one of them main goes on to copySiteContent only with the target
\* emptied.
C6_StrictEmpty ==
  LET target == TargetPath(options)
  IN (/\ ~argv.dryrun
      /\ stages # <<>> /\ Last(stages) = "verifyTarget"
      /\ Children(fsV, target) # {})
       => IF argv.rest.clean \/ remove
          THEN pc = "copySiteContent" => Children(fs, target) = {}
          ELSE pc = "exit" /\ err # "" /\ fs = fsV

\* C7: every file a run writes (yaspp.config.json, yaspp.site.json,
\* package.json, .gitignore) is written at the root of the target.
C7_WrittenAtTargetRoot ==
  \A p \in written : Parent(p) = TargetPath(options)

\* C8: when finalizeProject returns an error, main goes on to generateFiles
\* and returns success (exit code 0), and no entry that existed when
\* finalizeProject was called is removed or changed.
C8_FinalizeWarning ==
  fErr # "" =>
    /\ pc \in {"generateFiles", "exit"}
    /\ pc = "exit" => (err = "" /\ exit(err) = 0 /\ Last(stages) = "generateFiles")
    /\ \A p \in DOMAIN fsF : p \in DOMAIN fs /\ fs[p] = fsF[p]

\* C8 witness: the install command failed in a run that had cloned the
\* library and written the project descriptor, and the run has ended.
C8_Witness ==
  /\ pc = "exit"
  /\ fErr = "Failed to run yarn/npm"
  /\ isFolder(fs, TargetPath(options) \o <<"yaspp">>)
  /\ isFile(fs, TargetPath(options) \o CSY_YASPP_CONFIG)
  /\ isFile(fs, TargetPath(options) \o CSY_SAVED_CONFIG)

\* C9: a --refresh run (not a dry run) for a target that an earlier
\* successful run set up is not rejected because the target is not empty,
\* leaves every entry outside <target>/site as it was, and starts no stage
\* after copySiteContent.
C9_RefreshKeepsTarget ==
  (/\ runs >= 2
   /\ argv.refresh /\ ~argv.dryrun
   /\ "verifyTarget" \in SeqToSet(stages))
    => /\ err # "Target folder not empty"
       /\ \A p \in DOMAIN fs0 :
            ~IsPrefixSeq(prev.target \o <<"site">>, p)
              => (p \in DOMAIN fs /\ fs[p] = fs0[p])
       /\ IsPrefixSeq(stages, SubSeq(StageOrder, 1, 4))

\* C10: a --refresh or --auto run that follows a successful run which wrote
\* the side-car for the same target finds the configuration file, and
\* getConfiguration resolves from it the options of the earlier run.
C10_SideCarRoundTrip ==
  (/\ runs >= 2
   /\ prev.saved
   /\ "loadTools" \in SeqToSet(stages)
   /\ pc # "loadConfig"
   /\ err # "err_tools")
    => /\ err # "err_config_file"
       /\ Resolved => options = prev.options

\* ---- the run that falls back on the sample site
\* main has returned
SiteDone == call.op = "main" /\ call.pc = "exit"

\* The tree of the sample site is found under <target>/site.
Materialized(s) ==
  /\ isFolder(s.fs, s.target \o <<SITE_FOLDER>>)
  /\ \A q \in Descendants(s.fs, SampleSitePath) :
       LET r == s.target \o <<SITE_FOLDER>>
                  \o SubSeq(q, Len(SampleSitePath) + 1, Len(q))
       IN r \in DOMAIN s.fs /\ s.fs[r].kind = s.fs[q].kind

\* The content root the user supplied: on the command line or in the
\* configuration file, or at the prompt when there was one.
Supplied(s) ==
  IF s.siteConfig.ok THEN s.args.contentRoot ELSE s.opts.contentRoot

\* The project descriptor is a file of the target and holds the content root r.
DescriptorRoot(s, r) ==
  LET yPath == s.target \o CSY_YASPP_CONFIG
  IN /\ isFile(s.fs, yPath)
     /\ s.fs[yPath].tag = "yaspp.config.json"
     /\ s.fs[yPath].ysp.contentRoot = r

\* C11 as stated: a run without a content source that succeeds has put the
\* sample site into <target>/site and has written a descriptor at
\* <target>/yaspp.config.json that carries the supplied content root unchanged.
C11_DefaultSite ==
  (SiteDone /\ call.s.err = "" /\ call.s.content.site = <<>>)
    => /\ Materialized(call.s)
       /\ DescriptorRoot(call.s, Supplied(call.s))

\* C11, amended: a run without a content source that acquires content (no
\* --no-content, no --dryrun) and succeeds has put the sample site into
\* <target>/site; unless it was a --refresh run it has written the descriptor
\* at <target>/yaspp.config.json, which carries the supplied content root
\* unchanged when the configuration was resolved from the supplied values,
\* and the content root of the site's own yaspp.config.json prefixed with
\* "site/" when that file was used.
C11_DefaultSiteCopied ==
  (SiteDone /\ call.s.err = "" /\ call.s.content.site = <<>>
     /\ call.s.a.content /\ ~call.s.a.dryrun)
    => /\ Materialized(call.s)
       /\ ~call.s.a.refresh =>
            DescriptorRoot(call.s,
                           IF call.s.siteConfig.ok
                           THEN <<SITE_FOLDER>> \o call.s.siteConfig.value.contentRoot
                           ELSE Supplied(call.s))

\* --auto --target out --content-root content ... in an empty directory: the
\* sample site is in out/site and the descriptor says "content".
C11_Witness ==
  /\ SiteDone /\ call.s.err = "" /\ call.s.content.site = <<>>
  /\ call.s.a.autoReply /\ ~call.s.a.refresh /\ ~call.s.a.dryrun
  /\ call.s.a.content /\ call.s.a.target = <<"out">>
  /\ ~call.s.siteConfig.ok
  /\ call.s.a.rest.contentRoot = <<"content">>
  /\ Materialized(call.s)
  /\ DescriptorRoot(call.s, <<"content">>)

\* ---- copyFolderContent on its own
\* The entries below the folder root, by their path from it, with their kind.
Below(f, root) ==
  {[path |-> SubSeq(q, Len(root) + 1, Len(q)), kind |-> f[q].kind] :
     q \in Descendants(f, root)}

\* C12: after a successful copy, and after a second one, the destination
\* tree equals the source tree, so nothing that was in the destination and
\* is not in the source remains.
C12_Mirror ==
  (call.op = "copyFolderContent" /\ call.copies > 0 /\ call.err = "")
    => Below(call.fs, <<"w", "out">>) = Below(call.fs, <<"w", "src">>)

\* ---- diffPaths on its own
\* C13: for absolute folder paths A and B, B not a descendant of A,
\* diffPaths(A, B) starts with ".." and path.resolve(A, diffPaths(A, B)) is B.
C13_RoundTrip ==
  (call.op = "diffPaths" /\ call.done
     /\ ~IsPrefixSeq(call.fromPath, call.toPath))
    => /\ call.result # <<>> /\ call.result[1] = ".."
       /\ Resolve(call.fromPath, call.result) = call.toPath

\* ---- validation
\* How many times the error e is in the list errors.
Count(e) == Cardinality({i \in 1..Len(errors) : errors[i] = e})

\* The rules of getConfiguration, read on the values the pass collected,
\* each with the error that reports it.
Violated ==
  [e \in {ErrBoth, ErrPath, ErrContentRoot, ErrContentIndex, ErrLocaleRoot,
          ErrStyleIndex, ErrLangs, ErrLocale, ErrBranch} |->
     CASE e = ErrBoth -> options.repository # <<>> /\ options.path # <<>>
       [] e = ErrPath -> /\ options.path # <<>>
                         /\ ~isFolder(fs, Resolve(PROJECT_ROOT, options.path))
       [] e = ErrContentRoot -> options.contentRoot = <<>>
       [] e = ErrContentIndex -> options.contentIndex = <<>>
       [] e = ErrLocaleRoot -> options.localeRoot = <<>>
       [] e = ErrStyleIndex -> options.styleRoot # <<>> /\ options.styleIndex = <<>>
       [] e = ErrLangs -> parseLangs(options.langs) = <<>>
       [] e = ErrLocale -> options.defaultLocale \notin SeqToSet(parseLangs(options.langs))
       [] e = ErrBranch -> options.repository = <<>> /\ passArgs.branch # <<>>]

RECURSIVE Words(_)
\* The maximal runs of characters that are neither a comma nor white space,
\* in the order in which they stand in s.
Words(s) ==
  IF s = <<>> THEN <<>>
  ELSE IF Head(s) \in {",", " "} THEN Words(Tail(s))
  ELSE LET n == CHOOSE n \in 1..Len(s) :
                  /\ \A i \in 1..n : s[i] \notin {",", " "}
                  /\ n = Len(s) \/ s[n + 1] \in {",", " "}
       IN <<SubSeq(s, 1, n)>> \o Words(SubSeq(s, n + 1, Len(s)))

\* w is 2 to 5 letters, optionally followed by one of the joiners and 2 to 5
\* letters.
IsTag(w, joiners) ==
  LET letters(a, b) == b - a + 1 \in 2..5 /\ \A i \in a..b : w[i] \in Letters
  IN \/ letters(1, Len(w))
     \/ \E j \in 1..Len(w) :
          w[j] \in joiners /\ letters(1, j - 1) /\ letters(j + 1, Len(w))

Tags(s, joiners) == SelectSeq(Words(s), LAMBDA w : IsTag(w, joiners))

\* C15 as stated: parseLangs returns, in order, exactly the segments that
\* are 2 to 5 letters optionally followed by a hyphen and 2 to 5 letters.
C15_HyphenTags ==
  (call.op = "parseLangs" /\ call.done) => call.result = Tags(call.langs, {"-"})

\* C15, amended: parseLangs splits on commas and white space and returns, in
\* order, exactly the segments that are 2 to 5 letters optionally followed
\* by a hyphen or an underscore and 2 to 5 letters; "en, fr-CA  de" gives
\* [en, fr-CA, de] and "e,  123" gives [].
C15_Tags ==
  (call.op = "parseLangs" /\ call.done)
    => /\ call.result = Tags(call.langs, {"-", "_"})
       /\ call.langs = <<"e", "n", ",", " ", "f", "r", "-", "C", "A", " ", " ", "d", "e">>
            => call.result = <<<<"e", "n">>, <<"f", "r", "-", "C", "A">>, <<"d", "e">>>>
       /\ call.langs = <<"e", ",", " ", " ", "1", "2", "3">> => call.result = <<>>

\* "en, fr-CA  de" has been parsed into its three tags.
C15_Witness ==
  /\ call.op = "parseLangs" /\ call.done
  /\ call.langs = <<"e", "n", ",", " ", "f", "r", "-", "C", "A", " ", " ", "d", "e">>
  /\ Len(call.result) = 3
  /\ call.result[2] = <<"f", "r", "-", "C", "A">>

\* ---- the mandatory tools
\* The probe of git or of yarn did not succeed, or printed no version number.
NoVersion ==
  \E tool \in {"git", "yarn"} :
    probes[tool].status # 0 \/ parseVersion(probes[tool].output) = ""

\* main returned after loadTools and before anything else.
EndedAtTools ==
  /\ pc = "exit"
  /\ stages = <<"loadTools">>
  /\ passes = 0 /\ typed = 0 /\ ~asked
  /\ cfgArgs = NoOpt /\ options = NoOpt
  /\ fs = fs0 /\ written = {}
  /\ spawned \subseteq {"git --version", "yarn --version", "npm --version",
                        "npx --version"}

\* C16 as stated: main ends with the tools error if and only if the version
\* probe of git or of yarn exited with a status other than 0.
C16_ToolsErrorIffStatus ==
  "loadTools" \in SeqToSet(stages)
    => (err = "err_tools"
          <=> \E tool \in {"git", "yarn"} : probes[tool].status # 0)

\* C16, amended: main ends with the tools error if and only if the version
\* probe of git or of yarn exited with a status other than 0 or printed no
\* version number; it then ends before any prompt, configuration load or
\* change of the file system; otherwise the run goes on to the next stage.
C16_ToolsErrorIffNoVersion ==
  "loadTools" \in SeqToSet(stages)
    => /\ err = "err_tools" <=> NoVersion
       /\ err = "err_tools" => EndedAtTools
       /\ (~NoVersion /\ pc = "exit")
            => (Len(stages) > 1 \/ err = "err_config_file")

\* The probe of yarn failed and main has returned the tools error.
C16_Witness ==
  /\ "loadTools" \in SeqToSet(stages)
  /\ probes["git"].status = 0
  /\ probes["yarn"].status # 0
  /\ err = "err_tools"
  /\ pc = "exit"

\* ---- restarting getConfiguration
\* A pass after the first one, in which every prompt is answered with Enter.
EnterPass ==
  /\ pc = "getConfiguration"
  /\ passes >= 1
  /\ passes' = passes + 1
  /\ typed' = typed

\* C17: a pass started by "edit again" in which every prompt is answered
\* with an empty reply collects the configuration of the pass before it.
C17_RestartReproduces == [][EnterPass => options' = options]_vars

\* ---- the fields in auto-reply mode
\* getConfiguration has run in auto-reply mode.
AutoPassDone == cfgAuto /\ passes >= 1

\* What a field is when no value is supplied for it: "en" for the
\* languages, the first language for the default locale, nothing otherwise.
Unsupplied(field) ==
  CASE field = "langs" -> LangEn
    [] field = "defaultLocale" ->
         IF parseLangs(options.langs) = <<>> THEN <<>>
         ELSE parseLangs(options.langs)[1]
    [] OTHER -> <<>>

\* C18: in auto-reply mode every field resolves to the value supplied for
\* it when one was supplied, and to its empty or default value otherwise.
C18_SuppliedOrDefault ==
  AutoPassDone
    => \A field \in Fields :
         options[field] = IF passArgs[field] # <<>> THEN passArgs[field]
                          ELSE Unsupplied(field)

\* ---- the end of getConfiguration
\* What the user answered to the confirmation, Enter taking the default
\* that is offered: "Y" after a pass with errors, "N" otherwise.
Answer ==
  IF call.reply = <<>> THEN IF call.errors # <<>> THEN <<"y">> ELSE <<"n">>
  ELSE LowerSeq(Trim(call.reply))

\* C19: in auto-reply mode getConfiguration ends after exactly one pass, with
\* no prompt and no confirmation; in interactive mode it goes on to a further
\* pass only when the user answers "edit again", and ends when the answer
\* is no.
C19_Termination ==
  (call.op = "getConfiguration" /\ call.passes >= 1)
    => /\ call.autoReply
            => call.done /\ call.passes = 1 /\ call.prompted = {} /\ ~call.asked
       /\ ~call.autoReply
            => /\ call.asked
               /\ ~call.done => Answer \in {<<"y">>, <<"y", "e", "s">>, <<"o", "k">>}
               /\ Answer \in {<<"n">>, <<"n", "o">>} => call.done

\* The user has answered "no" to the confirmation of a second pass.
C19_Witness ==
  /\ call.op = "getConfiguration"
  /\ ~call.autoReply
  /\ call.passes = 2
  /\ call.reply = <<"n", "o">>
  /\ call.done

\* ---- the options after the content has been acquired
\* copySiteContent has returned its result to main without an error.
ContentStageDone ==
  /\ "copySiteContent" \in SeqToSet(stages)
  /\ ~(stages[Len(stages)] = "copySiteContent" /\ stageErr # "")

\* The run had a content source and was allowed to fetch it.
ContentAcquired ==
  /\ options.path # <<>> \/ options.repository # <<>>
  /\ ~argv.dryrun /\ argv.content

\* Each root field that is set, with "site/" before it.
SitePrefixed(o) ==
  LET pre(p) == IF p # <<>> THEN <<"site">> \o p ELSE p
  IN [o EXCEPT !.contentRoot = pre(@), !.localeRoot = pre(@),
               !.styleRoot = pre(@), !.assetsRoot = pre(@)]

\* C20: after content was cloned or copied into <target>/site every root
\* field that is set is "site/" followed by its previous value and all other
\* fields are unchanged; when no content was acquired the options are
\* unchanged.
C20_RootsRewritten ==
  ContentStageDone
    => siteOptions = IF ContentAcquired THEN SitePrefixed(options) ELSE options

\* ---- the source folder of the content
\* The folder that options.path names, when it was there at the start.
SourceFolder == Resolve(PROJECT_ROOT, options.path)

HasSource ==
  /\ "verifyTarget" \in SeqToSet(stages)
  /\ options.path # <<>>
  /\ isFolder(fs0, SourceFolder)

\* C21: whatever the run does and however it ends, the tree of the source
\* folder is as it was when the run started: nothing in it is created,
\* deleted or changed.
C21_SourceUntouched ==
  HasSource
    => \A q \in DOMAIN fs \cup DOMAIN fs0 :
         IsPrefixSeq(SourceFolder, q)
           => q \in DOMAIN fs /\ q \in DOMAIN fs0 /\ fs[q] = fs0[q]

\* ---- the target under the asset-collision policy
\* C22: every entry that the target had before the run is still there,
\* unchanged, whether the run succeeded or failed.
C22_TargetEntriesKept ==
  call.op = "main"
    => \A q \in Tree(call.fs0, call.target) :
         q \in DOMAIN call.fs /\ call.fs[q] = call.fs0[q]

\* ---- what a dry run prints
\* A dry run has printed the project descriptor.
DryPrinted ==
  /\ argv.dryrun
  /\ "generateYaspp" \in SeqToSet(stages)

\* What copySiteContent returns in the run with the same options and
\* without --dryrun, when nothing fails in it.
RealContent ==
  copySiteContent(mkdir(fs0, TargetPath(options)).fs, options, FALSE,
                  PROJECT_ROOT, TRUE, TRUE, NoFail)

\* C23: the project descriptor that a dry run prints is the one that the
\* run with the same inputs and without --dryrun writes.
C23_DryPredictsReal ==
  (DryPrinted /\ RealContent.error = "")
    => YasppConfig(siteOptions) = YasppConfig(RealContent.result)

\* ---- the circular-copy guard
\* C24: for a source folder that exists, copyFolderContent returns the
\* circular-copy error if and only if the destination is the source or lies
\* inside the source's tree, path segment by path segment.
C24_CircularIffInside ==
  (call.op = "copyFolderContent(src, target)" /\ call.done
     /\ isFolder(call.fs0, call.srcPath))
    => (call.err = "Circular copy" <=> IsPrefixSeq(call.srcPath, call.targetPath))

\* ---- the destination after a failed copy
\* C25: when readdir or copyFile fails during the copy, copyFolderContent
\* returns an error message, and the destination folder is then still there
\* and has no entries.
C25_EmptyAfterFailure ==
  (call.op = "copyFolderContent" /\ call.copies >= 1 /\ call.err = "copy failed")
    => /\ isFolder(call.fs, <<"w", "out">>)
       /\ Children(call.fs, <<"w", "out">>) = {}

\* ---- isEmpty
\* C26: on an existing folder isEmpty returns false if and only if a file
\* exists somewhere in the folder's tree; a folder that holds only empty
\* folders, at any depth, is reported as empty.
C26_EmptyIffNoFile ==
  (call.op = "isEmpty" /\ call.done /\ isFolder(call.fs, call.folder)
     /\ call.res.error = "")
    => (call.res.result = FALSE
          <=> \E q \in Descendants(call.fs, call.folder) : call.fs[q].kind = "file")

\* ---- the asset-collision policy
\* verifyTarget has returned and copyDefaultSite has not run.
TargetVerified == call.op = "main" /\ call.pc # "verifyTarget" /\ ~call.copied

\* The names of the sample site's top-level entries that the target held
\* when the run started.
Collisions ==
  {q[Len(q)] : q \in {c \in DOMAIN call.fs0 :
                        /\ Len(c) = Len(SampleSitePath) + 1
                        /\ SubSeq(c, 1, Len(SampleSitePath)) = SampleSitePath
                        /\ call.target \o <<c[Len(c)]>> \in DOMAIN call.fs0}}

\* C27 as stated: verifyTarget fails with the error that names a colliding
\* entry if and only if the target holds an entry with the name of a
\* top-level entry of the sample site; otherwise the target is accepted,
\* empty or not; and verifyTarget deletes nothing.
C27_CollisionPolicy ==
  TargetVerified
    => /\ (call.err = "err_fileexists" /\ call.file \in Collisions)
            <=> Collisions # {}
       /\ \A q \in DOMAIN call.fs0 :
            q \in DOMAIN call.fs /\ call.fs[q] = call.fs0[q]

\* C27, amended: when the sample site can be listed, verifyTarget fails with
\* the error that names a colliding entry if and only if the target holds an
\* entry, of any kind, with the name of a top-level entry of the sample site;
\* a target without such an entry is accepted, empty or not; when the
\* listing fails verifyTarget fails with the read error; in every case it
\* deletes nothing.
C27_CollisionPolicyWhenListed ==
  TargetVerified
    => /\ call.err # "Error"
            => ((call.err = "err_fileexists" /\ call.file \in Collisions)
                  <=> Collisions # {})
       /\ (call.err # "Error" /\ Collisions = {}
             /\ getFileType(call.fs0, call.target) \in {"", "folder"})
            => call.err = ""
       /\ call.err \in {"", "Error", "err_fileexists", "err_target"}
       /\ \A q \in DOMAIN call.fs0 :
            q \in DOMAIN call.fs /\ call.fs[q] = call.fs0[q]

\* The target holds an entry named docs that is neither a file nor a folder,
\* and verifyTarget has refused the target naming it.
C27_Witness ==
  /\ TargetVerified
  /\ getFileType(call.fs0, <<"w", "out", "docs">>) = "other"
  /\ call.err = "err_fileexists"
  /\ call.file = "docs"
\* ---- C28
Destination(i) == Resolve(PROJECT_ROOT, copies[i].path)

\* C28: generateFiles never writes over a file or a folder: for each pair of
\* copies, a file or folder that was at the destination is there unchanged
\* afterwards; otherwise, in a real run with the template readable and the
\* write succeeding, the destination holds the template, whatever happened to
\* the other pair; with the template missing or the write failing the
\* destination is as it was; a dry run writes nothing; and the stage returns
\* no error in every case.
C28_NeverOverwrites ==
  (call.op = "generateFiles" /\ call.done) =>
    /\ call.err = ""
    /\ call.dry => \A i \in 1..Len(copies) :
         getFileType(call.fs, Destination(i)) = getFileType(call.fs0, Destination(i))
    /\ \A i \in 1..Len(copies) :
         IF isFileOrFolder(call.fs0, Destination(i))
         THEN /\ Destination(i) \in DOMAIN call.fs
              /\ call.fs[Destination(i)] = call.fs0[Destination(i)]
         ELSE IF ~call.dry /\ i \in call.ok.tmpl /\ i \in call.ok.write
              THEN /\ Destination(i) \in DOMAIN call.fs
                   /\ call.fs[Destination(i)] = FileNode(copies[i].tmpl)
              ELSE getFileType(call.fs, Destination(i))
                     = getFileType(call.fs0, Destination(i))

\* The first pair fails (its template is missing), the second finds nothing at
\* its destination and is written; and a run that finds a file at one
\* destination.
C28_Witness ==
  /\ call.op = "generateFiles" /\ call.done /\ ~call.dry
  /\ 1 \notin call.ok.tmpl
  /\ ~isFileOrFolder(call.fs0, Destination(1))
  /\ ~isFileOrFolder(call.fs0, Destination(2))
  /\ isFile(call.fs, Destination(2))
  /\ ~isFile(call.fs, Destination(1))

C28_WitnessKept ==
  /\ call.op = "generateFiles" /\ call.done /\ ~call.dry
  /\ call.ok = WriteFaults(TRUE)
  /\ isFile(call.fs0, Destination(2))
  /\ call.fs[Destination(2)] = FileNode("mine")


\* C28 as stated, for every run, a dry run included: a file or folder at the
\* destination is left unchanged, otherwise the template is written there
\* unless its template is missing or its write fails, and the stage returns no
\* error.
C28_WrittenInEveryRun ==
  (call.op = "generateFiles" /\ call.done) =>
    /\ call.err = ""
    /\ \A i \in 1..Len(copies) :
         IF isFileOrFolder(call.fs0, Destination(i))
         THEN /\ Destination(i) \in DOMAIN call.fs
              /\ call.fs[Destination(i)] = call.fs0[Destination(i)]
         ELSE (i \in call.ok.tmpl /\ i \in call.ok.write) =>
                /\ Destination(i) \in DOMAIN call.fs
                /\ call.fs[Destination(i)] = FileNode(copies[i].tmpl)

\* ---- C29
\* The first of error and close among the events that arrived, "" when
\* neither did.
FirstOf(events) ==
  LET ends == SelectSeq(events, LAMBDA e : e \in {"error", "close"})
  IN IF ends = <<>> THEN "" ELSE ends[1]

Member(s, x) == \E i \in 1..Len(s) : s[i] = x

\* C29: captureProcessOutput settles once and always by resolve: whatever
\* the order of the error, close and data events, and when spawn throws (the
\* catch clause resolves), the promise is resolved as soon as the first of
\* error and close arrived (or the call returned, for a throw or a dry run),
\* its status stays the one of that first event (the exit code for close), a
\* spawn failure gives a non-zero status with the error text among the error
\* lines, and a dry run gives status "0" and no output and spawns nothing.
C29_SettlesOnce ==
  (call.op = "captureProcessOutput") =>
    /\ call.settled <=> \/ call.pc = "returned"
                        \/ FirstOf(call.events) # ""
    /\ (call.pc = "listening" /\ FirstOf(call.events) = "close")
         => call.result.status = call.exitCode
    /\ (call.pc = "listening" /\ FirstOf(call.events) = "error")
         => /\ call.result.status \notin {"0", "null", "none"}
            /\ Member(call.result.errors, SpawnError)
    /\ (call.pc = "returned" /\ ~call.dryrun)
         => /\ call.result.status \notin {"0", "null", "none"}
            /\ Member(call.result.errors, SpawnError)
            /\ call.events = <<>>
    /\ (call.pc = "returned" /\ call.dryrun)
         => /\ call.result.status = "0"
            /\ call.result.output = <<>>
            /\ call.result.errors = <<>>
            /\ call.spawns = 0

\* The error event arrived first and close after it: two attempts to settle.
C29_Witness ==
  /\ call.op = "captureProcessOutput"
  /\ call.rev = "ts"
  /\ FirstOf(call.events) = "error"
  /\ Seen("close")
  /\ Seen("stderr")
  /\ call.resolves = 2
  /\ call.exitCode = "0"

\* ---- C30
\* The forward-slash form of a path: the drive prefix X:\ (a letter, a colon,
\* separators) rewritten to /x/, every backslash a slash.
ForwardSlashForm(path) ==
  LET n == WIN_DEVICE_RE(path)
      body == IF n > 0
              THEN <<"/", toLowerCase(path[1]), "/">> \o SubSeq(path, n + 1, Len(path))
              ELSE path
  IN [i \in 1..Len(body) |-> IF body[i] = "\\" THEN "/" ELSE body[i]]

\* C30: normalizePath returns "" only for the empty path; for every other
\* path, with or without a drive prefix, it returns the forward-slash form of
\* the path; and a second application changes nothing.
C30_ForwardSlashForm ==
  (call.op = "normalizePath" /\ call.done) =>
    /\ (call.ret = <<>>) <=> (call.path = <<>>)
    /\ call.ret = ForwardSlashForm(call.path)
    /\ call.again = call.ret

\* The parts of C30 taken alone.
C30_EmptyOnlyForEmpty ==
  (call.op = "normalizePath" /\ call.done) =>
    ((call.ret = <<>>) <=> (call.path = <<>>))

C30_Idempotent ==
  (call.op = "normalizePath" /\ call.done) => call.again = call.ret

C30_DrivePaths ==
  (call.op = "normalizePath" /\ call.done /\ WIN_DEVICE_RE(call.path) > 0) =>
    call.ret = ForwardSlashForm(call.path)

====
